---- MODULE Spec2Model ----
(***************************************************************************)
(* Schema generator, schema registry, reference resolution and nested-type *)
(* extraction of the openapi-router-go router package.                     *)
(*                                                                         *)
(* Go maps are reference values: a schema is a map[string]any that can be  *)
(* reached from its parent schema, from the registry and from the caller   *)
(* at the same time, and extraction rewrites schemas in place.  The model  *)
(* therefore keeps a heap of map objects; a map-typed value is an address  *)
(* into that heap and NilAddr is the nil map.                              *)
(*                                                                         *)
(* Go strings that the code takes apart or concatenates (type names,       *)
(* property names, json tags, $ref targets) are sequences of one-character *)
(* strings, so that strings.Title, strings.Split and string concatenation  *)
(* are computed and not assumed.                                           *)
(***************************************************************************)
EXTENDS Integers, Sequences, FiniteSets, TLC

VARIABLES
    impl,       \* which schemaRef implementation owns the registry:
                \* "OpenAPIGenerator" (pkg/router/schema.go) or "DocRouter"
    types,      \* the declared struct types: type id -> [name, fields]
    heap,       \* the map objects allocated so far: address -> map
    registry,   \* schemaRegistry.schemas: type name -> address of its schema
    call,       \* the last operation performed and its argument
    ret,        \* what the last operation returned (an address, NilAddr = nil)
    processed,  \* schemaGenerator.processed as the last generator left it
    diverged,   \* TRUE when a generation ran out of the recursion budget
    ncalls,     \* number of operations performed so far
    routes,     \* the routes registered so far, in registration order
    routeResponses, \* routeID -> status code -> name of a custom response
    doc,        \* what the last document operation returned
    useBearerAuth,   \* DocRouter.useBearerAuth
    customResponses, \* customResponses: name -> response object
    mux,        \* DocRouter.mux: the patterns handled and their handlers
    served      \* what the last request reached, and through which middleware

vars == <<impl, types, heap, registry, call, ret, processed, diverged, ncalls,
          routes, routeResponses, doc, useBearerAuth, customResponses, mux,
          served>>

\* the global configuration of the document, and the serving side
config == <<useBearerAuth, customResponses>>
serving == <<mux, served>>

-----------------------------------------------------------------------------
(* Strings *)

LowerCase == <<"a","b","c","d","e","f","g","h","i","j","k","l","m",
               "n","o","p","q","r","s","t","u","v","w","x","y","z">>
UpperCase == <<"A","B","C","D","E","F","G","H","I","J","K","L","M",
               "N","O","P","Q","R","S","T","U","V","W","X","Y","Z">>
Digits == {"0","1","2","3","4","5","6","7","8","9"}

Range(s) == {s[i] : i \in DOMAIN s}

\* unicode.ToUpper on the ASCII letters
ToUpper(c) ==
    IF c \in Range(LowerCase)
    THEN UpperCase[CHOOSE i \in DOMAIN LowerCase : LowerCase[i] = c]
    ELSE c

\* strings.isSeparator: letters, digits and underscore are not separators,
\* every other ASCII character is
isSeparator(c) ==
    ~(c \in Range(LowerCase) \cup Range(UpperCase) \cup Digits \cup {"_"})

\* strings.Title: upper-cases the first letter of every word
Title(s) ==
    [i \in DOMAIN s |->
        IF i = 1 \/ isSeparator(s[i - 1]) THEN ToUpper(s[i]) ELSE s[i]]

\* strings.ToLower is not needed on names; strings.Split(s, sep) with a
\* one-character separator: the pieces, empty ones included
RECURSIVE SplitFrom(_, _, _, _)
SplitFrom(s, sep, i, cur) ==
    IF i > Len(s) THEN <<cur>>
    ELSE IF s[i] = sep THEN <<cur>> \o SplitFrom(s, sep, i + 1, <<>>)
    ELSE SplitFrom(s, sep, i + 1, Append(cur, s[i]))

Split(s, sep) == SplitFrom(s, sep, 1, <<>>)

\* slices.Contains
Contains(seq, x) == \E i \in DOMAIN seq : seq[i] = x

OmitEmpty == <<"o","m","i","t","e","m","p","t","y">>
ItemSuffix == <<"I","t","e","m">>
AnonymousPrefix == <<"A","n","o","n","y","m","o","u","s">>
SchemaRefPrefix == "#/components/schemas/"
CircularPrefix == "circular reference to "

-----------------------------------------------------------------------------
(* Values held in a map[string]any *)

NilAddr == 0
NilMap == << >>

StrV(toks) == [k |-> "str", v |-> toks]     \* a string, as a token sequence
ListV(seq) == [k |-> "list", v |-> seq]     \* a []string
MapV(a) == [k |-> "map", a |-> a]           \* a map[string]any, by address

IsMapV(x) == x.k = "map"

\* map[string]any{"$ref": fmt.Sprintf("#/components/schemas/%s", typeName)}
RefSchema(typeName) == ("$ref" :> StrV(<<SchemaRefPrefix>> \o typeName))

\* the machine state the Go functions read and write
Machine(h, reg, proc, div) ==
    [heap |-> h, reg |-> reg, processed |-> proc, diverged |-> div]

\* a Go function's effect and result
Result(m, r) == [m |-> m, ret |-> r]

\* r, the value of one statement, is computed: the statements that take it
\* start after the statement has run
Ran(r) == r \notin {}

\* allocation of a new map object
New(m, obj) == Result([m EXCEPT !.heap = Append(@, obj)], Len(m.heap) + 1)

\* m[key] on the map at address a; reading a nil map finds nothing
Has(m, a, key) == a # NilAddr /\ key \in DOMAIN m.heap[a]

\* v, ok := m[key].(map[string]any)
IsMapAt(m, a, key) == Has(m, a, key) /\ IsMapV(m.heap[a][key])

\* m[key] == "literal"
IsStrAt(m, a, key, lit) == Has(m, a, key) /\ m.heap[a][key] = StrV(<<lit>>)

\* m[key] = value on the map at address a
Store(m, a, key, value) ==
    [m EXCEPT !.heap[a] = (key :> value) @@ @]

-----------------------------------------------------------------------------
(* Types, as reflect sees them *)

BasicKinds == {"bool", "int", "int8", "int16", "int32", "int64",
               "uint", "uint8", "uint16", "uint32", "uint64",
               "float32", "float64", "string"}

\* the identifier of a builtin type is its kind
KindName(kind) ==
    CASE kind = "bool" -> <<"b","o","o","l">>
      [] kind = "int" -> <<"i","n","t">>
      [] kind = "float64" -> <<"f","l","o","a","t","6","4">>
      [] kind = "string" -> <<"s","t","r","i","n","g">>
      [] kind = "uint8" -> <<"u","i","n","t","8">>
      [] OTHER -> << >>

BasicT(kind) == [kind |-> kind, name |-> KindName(kind)]
StructT(id) == [kind |-> "struct", id |-> id]
PtrT(elem) == [kind |-> "ptr", name |-> << >>, elem |-> elem]
SliceT(elem) == [kind |-> "slice", name |-> << >>, elem |-> elem]
ArrayT(elem) == [kind |-> "array", name |-> << >>, elem |-> elem]
MapT(elem) == [kind |-> "map", name |-> << >>, elem |-> elem]
InterfaceT == [kind |-> "interface", name |-> << >>]
ChanT(elem) == [kind |-> "chan", name |-> << >>, elem |-> elem]
FuncT == [kind |-> "func", name |-> << >>]

\* the nil interface value
NilValue == [kind |-> "nil"]

\* a struct field's tag: Tag.Get(key) is "" for a key the tag does not have
NoTags == [json |-> << >>, doc |-> << >>, example |-> << >>, enum |-> << >>]

\* time.Time is a struct whose fields are all unexported; the struct table
\* holds it under TimeId
TimeId == 0
TimeType == StructT(TimeId)
TimeStruct ==
    [name |-> <<"T","i","m","e">>,
     fields |-> << [name |-> <<"w","a","l","l">>, pkgPath |-> "time",
                    tag |-> NoTags, type |-> BasicT("uint64")],
                   [name |-> <<"e","x","t">>, pkgPath |-> "time",
                    tag |-> NoTags, type |-> BasicT("int64")] >>]

\* json.RawMessage is the named slice type []byte
RawMessageType ==
    [kind |-> "slice", name |-> <<"R","a","w","M","e","s","s","a","g","e">>,
     elem |-> BasicT("uint8")]


\* reflect.Type.Name(): "" for unnamed types
TypeName(t) == IF t.kind = "struct" THEN types[t.id].name ELSE t.name

-----------------------------------------------------------------------------
(* schemaGenerator *)

\* the number of nested struct expansions a generation is allowed before it
\* is declared divergent: one more than there are struct types
Budget == Cardinality(DOMAIN types) + 1

basicTypeSchema(kind) ==
    CASE kind = "bool" -> ("type" :> StrV(<<"boolean">>))
      [] kind \in {"int", "int8", "int16", "int32", "int64",
                   "uint", "uint8", "uint16", "uint32", "uint64"} ->
            ("type" :> StrV(<<"integer">>))
      [] kind \in {"float32", "float64"} -> ("type" :> StrV(<<"number">>))
      [] kind = "string" -> ("type" :> StrV(<<"string">>))
      [] OTHER -> NilMap

\* parseJsonTag looking for "omitempty" in every part, the name included
parseJsonTagAnyPart(jsonTag, fieldName) ==
    IF jsonTag = << >> THEN [name |-> fieldName, required |-> TRUE]
    ELSE LET parts == Split(jsonTag, ",")
             name == IF parts[1] = << >> THEN fieldName ELSE parts[1]
         IN [name |-> name, required |-> ~Contains(parts, OmitEmpty)]

parseJsonTag(jsonTag, fieldName) ==
    IF jsonTag = << >> THEN [name |-> fieldName, required |-> TRUE]
    ELSE LET parts == Split(jsonTag, ",")
             name == IF parts[1] = << >> THEN fieldName ELSE parts[1]
         IN [name |-> name, required |-> ~Contains(Tail(parts), OmitEmpty)]

addFieldMetadata(schema, field) ==
    LET s1 == IF field.tag.doc # << >>
              THEN ("description" :> StrV(field.tag.doc)) @@ schema ELSE schema
        s2 == IF field.tag.example # << >>
              THEN ("example" :> StrV(field.tag.example)) @@ s1 ELSE s1
    IN IF field.tag.enum # << >>
       THEN ("enum" :> ListV(Split(field.tag.enum, ","))) @@ s2 ELSE s2

RECURSIVE generate(_, _, _)
RECURSIVE processStruct(_, _, _)
RECURSIVE processFields(_, _, _, _, _, _)
RECURSIVE processField(_, _, _)
RECURSIVE processArrayField(_, _, _)
RECURSIVE processMapField(_, _, _)

processArrayField(m, fieldType, fuel) ==
    (LET withItems(items) ==
         IF Ran(items) THEN
             New(items.m, ("type" :> StrV(<<"array">>)) @@
                          ("items" :> MapV(items.ret)))
         ELSE items
     IN withItems(IF basicTypeSchema(fieldType.elem.kind) # NilMap
                  THEN New(m, basicTypeSchema(fieldType.elem.kind))
                  ELSE IF fieldType.elem.kind = "struct"
                  THEN generate(m, fieldType.elem, fuel)
                  ELSE New(m, ("type" :> StrV(<<"object">>)))))

processMapField(m, fieldType, fuel) ==
    (LET withAdditionalProperties(additionalProperties) ==
         IF Ran(additionalProperties) THEN
             New(additionalProperties.m,
                 ("type" :> StrV(<<"object">>)) @@
                 ("additionalProperties" :> MapV(additionalProperties.ret)))
         ELSE additionalProperties
     IN withAdditionalProperties(IF basicTypeSchema(fieldType.elem.kind) # NilMap
                                 THEN New(m, basicTypeSchema(fieldType.elem.kind))
                                 ELSE IF fieldType.elem.kind = "struct"
                                 THEN generate(m, fieldType.elem, fuel)
                                 ELSE New(m, ("type" :> StrV(<<"object">>)))))

processField(m, field, fuel) ==
    LET fieldType == IF field.type.kind = "ptr" THEN field.type.elem
                     ELSE field.type
    IN IF fieldType = TimeType
       THEN New(m, ("type" :> StrV(<<"string">>)) @@
                   ("format" :> StrV(<<"date-time">>)))
       ELSE IF fieldType = RawMessageType
       THEN New(m, ("type" :> StrV(<<"object">>)))
       ELSE IF basicTypeSchema(fieldType.kind) # NilMap
       THEN New(m, addFieldMetadata(basicTypeSchema(fieldType.kind), field))
       ELSE CASE fieldType.kind = "struct" -> generate(m, fieldType, fuel)
              [] fieldType.kind \in {"slice", "array"} ->
                    processArrayField(m, fieldType, fuel)
              [] fieldType.kind = "map" -> processMapField(m, fieldType, fuel)
              [] OTHER -> New(m, ("type" :> StrV(<<"object">>)))

\* the loop of processStruct from field i on
processFields(m, fields, i, properties, required, fuel) ==
    IF i > Len(fields)
    THEN [m |-> m, properties |-> properties, required |-> required]
    ELSE IF fields[i].pkgPath # "" \/ fields[i].tag.json = <<"-">>
    THEN processFields(m, fields, i + 1, properties, required, fuel)
    ELSE (LET withTag(tag) ==
              IF Ran(tag) THEN
         (LET withFieldSchema(fieldSchema) ==
              IF Ran(fieldSchema) THEN
                  processFields(
                      fieldSchema.m, fields, i + 1,
                      IF fieldSchema.ret # NilAddr
                      THEN (tag.name :> MapV(fieldSchema.ret)) @@ properties
                      ELSE properties,
                      IF tag.required THEN Append(required, tag.name)
                      ELSE required,
                      fuel)
              ELSE fieldSchema
          IN withFieldSchema(processField(m, fields[i], fuel)))
              ELSE tag
          IN withTag(parseJsonTag(fields[i].tag.json, fields[i].name)))

\* processStruct setting "required" whether or not a field is required
processStructAlwaysRequired(m, typ, fuel) ==
    (LET withBody(body) ==
         IF Ran(body) THEN
    (LET withProperties(properties) ==
         IF Ran(properties) THEN
             New(properties.m,
                 ("required" :> ListV(body.required)) @@
                 ("type" :> StrV(<<"object">>)) @@
                 ("properties" :> MapV(properties.ret)))
         ELSE properties
     IN withProperties(New(body.m, body.properties)))
         ELSE body
     IN withBody(processFields(m, types[typ.id].fields, 1, << >>, << >>, fuel)))

processStruct(m, typ, fuel) ==
    (LET withBody(body) ==
         IF Ran(body) THEN
    (LET withProperties(properties) ==
         IF Ran(properties) THEN
             New(properties.m,
                 (IF Len(body.required) > 0
                  THEN ("required" :> ListV(body.required)) ELSE << >>) @@
                 ("type" :> StrV(<<"object">>)) @@
                 ("properties" :> MapV(properties.ret)))
         ELSE properties
     IN withProperties(New(body.m, body.properties)))
         ELSE body
     IN withBody(processFields(m, types[typ.id].fields, 1, << >>, << >>, fuel)))

\* generate without the check of g.processed
generateUnguarded(m, t, fuel) ==
    IF t.kind = "nil" THEN Result(m, NilAddr)
    ELSE LET typ == IF t.kind = "ptr" THEN t.elem ELSE t
         IN IF typ.kind # "struct"
            THEN IF basicTypeSchema(typ.kind) # NilMap
                 THEN New(m, basicTypeSchema(typ.kind))
                 ELSE Result(m, NilAddr)
            ELSE IF fuel = 0
            THEN Result([m EXCEPT !.diverged = TRUE], NilAddr)
            ELSE (LET withSchema(schema) ==
                      IF Ran(schema) THEN
                          Result([schema.m EXCEPT !.processed = @ \ {typ.id}],
                                 schema.ret)
                      ELSE schema
                  IN withSchema(processStruct([m EXCEPT !.processed = @ \cup {typ.id}],
                                              typ, fuel - 1)))

\* generate that leaves the type in g.processed when it returns
generateKeepsVisited(m, t, fuel) ==
    IF t.kind = "nil" THEN Result(m, NilAddr)
    ELSE LET typ == IF t.kind = "ptr" THEN t.elem ELSE t
         IN IF typ.kind # "struct"
            THEN IF basicTypeSchema(typ.kind) # NilMap
                 THEN New(m, basicTypeSchema(typ.kind))
                 ELSE Result(m, NilAddr)
            ELSE IF typ.id \in m.processed
            THEN New(m, ("type" :> StrV(<<"object">>)) @@
                        ("description" :>
                            StrV(<<CircularPrefix>> \o TypeName(typ))))
            ELSE IF fuel = 0
            THEN Result([m EXCEPT !.diverged = TRUE], NilAddr)
            ELSE processStruct([m EXCEPT !.processed = @ \cup {typ.id}],
                               typ, fuel - 1)

\* generate that empties g.processed when it returns
generateClearsVisited(m, t, fuel) ==
    IF t.kind = "nil" THEN Result(m, NilAddr)
    ELSE LET typ == IF t.kind = "ptr" THEN t.elem ELSE t
         IN IF typ.kind # "struct"
            THEN IF basicTypeSchema(typ.kind) # NilMap
                 THEN New(m, basicTypeSchema(typ.kind))
                 ELSE Result(m, NilAddr)
            ELSE IF typ.id \in m.processed
            THEN New(m, ("type" :> StrV(<<"object">>)) @@
                        ("description" :>
                            StrV(<<CircularPrefix>> \o TypeName(typ))))
            ELSE IF fuel = 0
            THEN Result([m EXCEPT !.diverged = TRUE], NilAddr)
            ELSE (LET withSchema(schema) ==
                      IF Ran(schema) THEN
                          Result([schema.m EXCEPT !.processed = {}],
                                 schema.ret)
                      ELSE schema
                  IN withSchema(processStruct([m EXCEPT !.processed = @ \cup {typ.id}],
                                              typ, fuel - 1)))

generate(m, t, fuel) ==
    IF t.kind = "nil" THEN Result(m, NilAddr)
    ELSE LET typ == IF t.kind = "ptr" THEN t.elem ELSE t
         IN IF typ.kind # "struct"
            THEN IF basicTypeSchema(typ.kind) # NilMap
                 THEN New(m, basicTypeSchema(typ.kind))
                 ELSE Result(m, NilAddr)
            ELSE IF typ.id \in m.processed
            THEN New(m, ("type" :> StrV(<<"object">>)) @@
                        ("description" :>
                            StrV(<<CircularPrefix>> \o TypeName(typ))))
            ELSE IF fuel = 0
            THEN Result([m EXCEPT !.diverged = TRUE], NilAddr)
            ELSE (LET withSchema(schema) ==
                      IF Ran(schema) THEN
                          Result([schema.m EXCEPT !.processed = @ \ {typ.id}],
                                 schema.ret)
                      ELSE schema
                  IN withSchema(processStruct([m EXCEPT !.processed = @ \cup {typ.id}],
                                              typ, fuel - 1)))

\* jsonSchema: a new generator for every call
jsonSchema(m, t) == generate([m EXCEPT !.processed = {}], t, Budget)

-----------------------------------------------------------------------------
(* schemaRegistry *)

\* register on a registry map that is made anew for the entry
registerAnew(m, typeName, schema) ==
    [m EXCEPT !.reg = (typeName :> schema)]

register(m, typeName, schema) ==
    [m EXCEPT !.reg = (typeName :> schema) @@ @]

\* getSchemas: a new map holding the registry's entries
getSchemas(m) == [name \in DOMAIN m.reg |-> m.reg[name]]

\* the address that denotes the map r.schemas itself
RegistryAddr == -1

\* getSchemas returning r.schemas
getSchemasShared(m) == Result(m, RegistryAddr)

\* getSchemas as its caller sees it: the address of the new map, whose
\* values are the registry's schema maps themselves
getSchemasResult(m) ==
    New(m, [name \in DOMAIN getSchemas(m) |-> MapV(getSchemas(m)[name])])

-----------------------------------------------------------------------------
(* Nested-type extraction *)

getTypeName(t) ==
    IF t.kind = "nil" THEN << >>
    ELSE TypeName(IF t.kind = "ptr" THEN t.elem ELSE t)

\* the keys of the map at address a in the order this range statement
\* visits them: the order ord restricted to the keys present
RangeKeys(m, a, ord) ==
    IF a = NilAddr THEN << >>
    ELSE SelectSeq(ord, LAMBDA key : key \in DOMAIN m.heap[a])

\* The three extraction functions of the repository share one loop and differ
\* in two places: whether the derived name starts with the path of the
\* enclosing schema (prefixed) and whether the nested schema is stored in the
\* registry (registers).
RECURSIVE extractWalk(_, _, _, _, _, _)
RECURSIVE extractRange(_, _, _, _, _, _, _, _)

\* store schema under typeName when this variant registers, put a reference
\* to typeName at holder[key], and go on inside schema
promote(m, holder, key, schema, typeName, ord, prefixed, registers) ==
    (LET withRef(ref) ==
         IF Ran(ref) THEN
             extractWalk(Store(ref.m, holder, key, MapV(ref.ret)),
                         schema, typeName, ord, prefixed, registers)
         ELSE ref
     IN withRef(New(IF registers THEN register(m, typeName, schema) ELSE m,
                    RefSchema(typeName))))

\* handle object properties
extractObject(m, props, propName, propSchemaMap, typeName, ord, pre, reg) ==
    IF IsStrAt(m, propSchemaMap, "type", "object")
       /\ Has(m, propSchemaMap, "properties")
    THEN promote(m, props, propName, propSchemaMap, typeName, ord, pre, reg)
    ELSE m

\* handle array properties
extractItems(m, propSchemaMap, typeName, ord, prefixed, registers) ==
    IF /\ IsStrAt(m, propSchemaMap, "type", "array")
       /\ IsMapAt(m, propSchemaMap, "items")
       /\ IsStrAt(m, m.heap[propSchemaMap]["items"].a, "type", "object")
       /\ Has(m, m.heap[propSchemaMap]["items"].a, "properties")
    THEN promote(m, propSchemaMap, "items", m.heap[propSchemaMap]["items"].a,
                 typeName \o ItemSuffix, ord, prefixed, registers)
    ELSE m

\* one iteration of the loop body, for property propName of the map props
extractProperty(m, props, propName, path, ord, prefixed, registers) ==
    IF ~IsMapV(m.heap[props][propName]) THEN m
    ELSE LET propSchemaMap == m.heap[props][propName].a
             typeName == IF prefixed THEN path \o Title(propName)
                         ELSE Title(propName)
         IN extractItems(
                extractObject(m, props, propName, propSchemaMap, typeName,
                              ord, prefixed, registers),
                propSchemaMap, typeName, ord, prefixed, registers)

\* for propName, propSchema := range props, from the i-th key on
extractRange(m, props, keys, i, path, ord, prefixed, registers) ==
    IF i > Len(keys) THEN m
    ELSE extractRange(
             extractProperty(m, props, keys[i], path, ord, prefixed, registers),
             props, keys, i + 1, path, ord, prefixed, registers)

extractWalk(m, schema, path, ord, prefixed, registers) ==
    IF ~IsStrAt(m, schema, "type", "object") THEN m
    ELSE IF ~IsMapAt(m, schema, "properties") THEN m
    ELSE extractRange(m, m.heap[schema]["properties"].a,
                      RangeKeys(m, m.heap[schema]["properties"].a, ord), 1,
                      path, ord, prefixed, registers)

\* pkg/router/schema.go: names chained from the path, nested schemas stored
extractNestedTypes(m, schema, path, ord) ==
    extractWalk(m, schema, path, ord, TRUE, TRUE)

\* the DocRouter's extractAndRegisterNestedTypes: the name is the title-cased
\* property name alone
extractAndRegisterNestedTypes(m, schema, path, ord) ==
    extractWalk(m, schema, path, ord, FALSE, TRUE)

\* the DocRouter's extractNestedTypes: references are written, nothing is
\* stored
extractNestedTypesDocRouter(m, schema, path, ord) ==
    extractWalk(m, schema, path, ord, FALSE, FALSE)

-----------------------------------------------------------------------------
(* schemaRef *)

\* the inline schema of an anonymous type, nested types extracted
\* (OpenAPIGenerator)
inlineSchema(m, t, ord) ==
    (LET withSchema(schema) ==
         IF Ran(schema) THEN
             Result(extractNestedTypes(schema.m, schema.ret, AnonymousPrefix,
                                       ord),
                    schema.ret)
         ELSE schema
     IN withSchema(jsonSchema(m, t)))

\* generate, register and extract the schema of a named type
\* (OpenAPIGenerator)
registerSchema(m, t, typeName, ord) ==
    (LET withSchema(schema) ==
         IF Ran(schema) THEN
             extractNestedTypes(register(schema.m, typeName, schema.ret),
                                schema.ret, typeName, ord)
         ELSE schema
     IN withSchema(jsonSchema(m, t)))

\* OpenAPIGenerator.schemaRef without the check of g.schemaRegistry.schemas
schemaRefAlways(m, t, ord) ==
    IF getTypeName(t) = << >> THEN inlineSchema(m, t, ord)
    ELSE New(registerSchema(m, t, getTypeName(t), ord),
             RefSchema(getTypeName(t)))

\* OpenAPIGenerator.schemaRef
schemaRef(m, t, ord) ==
    IF getTypeName(t) = << >> THEN inlineSchema(m, t, ord)
    ELSE New(IF getTypeName(t) \notin DOMAIN m.reg
             THEN registerSchema(m, t, getTypeName(t), ord)
             ELSE m,
             RefSchema(getTypeName(t)))

\* the inline schema of an anonymous type, references written (DocRouter)
inlineSchemaDocRouter(m, t, ord) ==
    (LET withSchema(schema) ==
         IF Ran(schema) THEN
             Result(extractNestedTypesDocRouter(schema.m, schema.ret,
                                                AnonymousPrefix, ord),
                    schema.ret)
         ELSE schema
     IN withSchema(jsonSchema(m, t)))

\* generate, register and extract the schema of a named type (DocRouter)
registerSchemaDocRouter(m, t, typeName, ord) ==
    (LET withSchema(schema) ==
         IF Ran(schema) THEN
             extractAndRegisterNestedTypes(
                 register(schema.m, typeName, schema.ret),
                 schema.ret, typeName, ord)
         ELSE schema
     IN withSchema(jsonSchema(m, t)))

\* DocRouter.schemaRef without the check of getSchemas()
schemaRefDocRouterAlways(m, t, ord) ==
    IF t.kind = "nil" THEN Result(m, NilAddr)
    ELSE IF getTypeName(t) = << >> THEN inlineSchemaDocRouter(m, t, ord)
    ELSE New(registerSchemaDocRouter(m, t, getTypeName(t), ord),
             RefSchema(getTypeName(t)))

\* DocRouter.schemaRef
schemaRefDocRouter(m, t, ord) ==
    IF t.kind = "nil" THEN Result(m, NilAddr)
    ELSE IF getTypeName(t) = << >> THEN inlineSchemaDocRouter(m, t, ord)
    ELSE New(IF getTypeName(t) \notin DOMAIN getSchemas(m)
             THEN registerSchemaDocRouter(m, t, getTypeName(t), ord)
             ELSE m,
             RefSchema(getTypeName(t)))

-----------------------------------------------------------------------------
(* Document generation: paths, operations, responses, components *)

\* strings.ToLower on the ASCII letters
ToLower(s) ==
    [i \in DOMAIN s |->
        IF s[i] \in Range(UpperCase)
        THEN LowerCase[CHOOSE k \in DOMAIN UpperCase : UpperCase[k] = s[i]]
        ELSE s[i]]

\* strings.ReplaceAll(s, old, new) for one-character old and new
ReplaceAll(s, old, new) ==
    [i \in DOMAIN s |-> IF s[i] = old THEN new ELSE s[i]]

\* strings.Contains(s, c) for a one-character c
ContainsChar(s, c) == \E i \in DOMAIN s : s[i] = c

ArrayPrefix == <<"a","r","r","a","y","_">>
ResponseRefPrefix == "#/components/responses/"
Get == <<"g","e","t">>
Post == <<"p","o","s","t">>
Put == <<"p","u","t">>
Patch == <<"p","a","t","c","h">>

\* a sequence holding the elements of the finite set S, each once
RECURSIVE SeqOf(_)
SeqOf(S) ==
    IF S = {} THEN << >>
    ELSE LET x == CHOOSE y \in S : TRUE IN <<x>> \o SeqOf(S \ {x})

Reverse(seq) == [i \in DOMAIN seq |-> seq[Len(seq) + 1 - i]]

\* extractPathParams keeping the braces of the part
extractPathParamsWithBraces(path) ==
    SelectSeq(Split(path, "/"),
              LAMBDA part : /\ Len(part) > 0
                            /\ part[1] = "{"
                            /\ part[Len(part)] = "}")

\* extractPathParams: the parts of the path that start with { and end with
\* }, without the braces
extractPathParams(path) ==
    (LET withParts(parts) ==
         IF Ran(parts) THEN
             [i \in DOMAIN parts |-> SubSeq(parts[i], 2, Len(parts[i]) - 1)]
         ELSE parts
     IN withParts(extractPathParamsWithBraces(path)))

generatePathParameters(params) ==
    [i \in DOMAIN params |->
        [name |-> params[i], in |-> "path", required |-> TRUE,
         schema |-> [type |-> "string"],
         description |-> params[i] \o <<" parameter">>]]

\* the skip rule that looks for "^" only
skippedCaretOnly(path) == ContainsChar(path, "^")

\* strings.Contains(route.Path, "^") || strings.Contains(route.Path, "(")
skipped(path) == ContainsChar(path, "^") \/ ContainsChar(path, "(")

\* fmt.Sprintf("%s:%s", strings.ToLower(method), routePath)
routeID(method, path) == ToLower(method) \o <<":">> \o path

\* map[string]any{"application/json": map[string]any{"schema": schema}}
JSONContent(schema) == ("application/json" :> ("schema" :> MapV(schema)))

\* a response object with a description only
Described(description) == ("description" :> StrV(description))

\* a response object with a description and a JSON schema
DescribedContent(description, schema) ==
    ("description" :> StrV(description)) @@ ("content" :> JSONContent(schema))

\* map[string]any{"$ref": "#/components/responses/<name>"}
ResponseRef(responseName) ==
    ("$ref" :> StrV(<<ResponseRefPrefix>> \o responseName))

\* examples[example.ContentType] = map[string]any{"value": example.Value},
\* in the order of the slice: the last example of a content type stays
examplesByContentType(examples) ==
    [contentType \in { <<examples[i].contentType>> : i \in DOMAIN examples } |->
        [value |-> examples[CHOOSE i \in DOMAIN examples :
                              /\ <<examples[i].contentType>> = contentType
                              /\ \A j \in DOMAIN examples :
                                    <<examples[j].contentType>> = contentType
                                        => j <= i].value]]

\* fmt.Sprintf("example%d", i+1), i counting from 0
exampleName(i) == <<"example", ToString(i)>>

\* examples[exampleName] = map[string]any{"value": example.Value}
examplesByName(examples) ==
    [name \in { exampleName(i) : i \in DOMAIN examples } |->
        [value |-> examples[CHOOSE i \in DOMAIN examples :
                              exampleName(i) = name].value]]

\* the "examples" entry, present when there are examples
examplesEntry(examples) ==
    IF DOMAIN examples # {} THEN ("examples" :> examples) ELSE << >>

\* the response object of a declared response (OpenAPIGenerator): the
\* description, and the content if it has a schema or examples
responseObject(description, responseContent) ==
    ("description" :> StrV(description)) @@
    (IF DOMAIN responseContent # {}
     THEN ("content" :> ("application/json" :> responseContent))
     ELSE << >>)

\* responseContent["schema"] = g.schemaRef(routeResponse.Schema), if the
\* declared response has a schema
schemaEntry(m, routeResponse, ord) ==
    IF routeResponse.schema.kind # "nil"
    THEN (LET withSchema(schema) ==
              IF Ran(schema) THEN
                  Result(schema.m, ("schema" :> MapV(schema.ret)))
              ELSE schema
          IN withSchema(schemaRef(m, routeResponse.schema, ord)))
    ELSE Result(m, << >>)

\* the loop over route.Responses (OpenAPIGenerator)
RECURSIVE declaredResponses(_, _, _, _, _)
declaredResponses(m, declared, statuses, responses, ord) ==
    IF statuses = << >> THEN Result(m, responses)
    ELSE (LET withEntry(entry) ==
              IF Ran(entry) THEN
                  declaredResponses(
                      entry.m, declared, Tail(statuses),
                      (Head(statuses) :>
                          responseObject(
                              declared[Head(statuses)].description,
                              entry.ret @@
                              examplesEntry(examplesByContentType(
                                  declared[Head(statuses)].examples)))) @@
                      responses,
                      ord)
              ELSE entry
          IN withEntry(schemaEntry(m, declared[Head(statuses)], ord)))

\* the success response, added if no declared response is under "200"
\* (OpenAPIGenerator)
successResponse(m, route, responses, ord) ==
    IF "200" \in DOMAIN responses THEN Result(m, responses)
    ELSE IF route.responseType.kind # "nil"
    THEN (LET withSchema(schema) ==
              IF Ran(schema) THEN
                  Result(schema.m,
                         ("200" :> DescribedContent(<<"successful operation">>,
                                                    schema.ret)) @@ responses)
              ELSE schema
          IN withSchema(schemaRef(m, route.responseType, ord)))
    ELSE Result(m, ("200" :> Described(<<"successful operation">>))
                   @@ responses)

\* the loop over routeResponses[routeID]: a status code the responses
\* already have is skipped
namedResponses(route, responses) ==
    IF routeID(route.method, route.path) \in DOMAIN routeResponses
    THEN [status \in DOMAIN responses \cup
                     DOMAIN routeResponses[routeID(route.method, route.path)] |->
            IF status \in DOMAIN responses THEN responses[status]
            ELSE ResponseRef(
                     routeResponses[routeID(route.method, route.path)][status])]
    ELSE responses

\* OpenAPIGenerator.generateResponses
generateResponses(m, route, statuses, ord) ==
    (LET withDeclared(declared) ==
         IF Ran(declared) THEN
    (LET withSuccess(success) ==
         IF Ran(success) THEN
             Result(success.m, namedResponses(route, success.ret))
         ELSE success
     IN withSuccess(successResponse(declared.m, route, declared.ret, ord)))
         ELSE declared
     IN withDeclared(declaredResponses(m, route.responses, statuses, << >>, ord)))

\* elemTypeName: the element's name if the element is a named struct
elemTypeName(t) ==
    IF t.elem.kind = "struct" /\ TypeName(t.elem) # << >>
    THEN TypeName(t.elem) ELSE << >>

\* the element type of a sequence is registered if it is a named struct
\* that getSchemas() does not hold
registerElem(m, t, ord) ==
    IF elemTypeName(t) # << >> /\ elemTypeName(t) \notin DOMAIN getSchemas(m)
    THEN schemaRefDocRouter(m, t.elem, ord).m
    ELSE m

\* the array schema is registered as array_<elemTypeName> if getSchemas()
\* does not hold it
registerArray(m, t) ==
    IF (ArrayPrefix \o elemTypeName(t)) \in DOMAIN getSchemas(m) THEN m
    ELSE (LET withItems(items) ==
              IF Ran(items) THEN
         (LET withArraySchema(arraySchema) ==
              IF Ran(arraySchema) THEN
                  register(arraySchema.m, ArrayPrefix \o elemTypeName(t),
                           arraySchema.ret)
              ELSE arraySchema
          IN withArraySchema(New(items.m, ("type" :> StrV(<<"array">>)) @@
                                          ("items" :> MapV(items.ret)))))
              ELSE items
          IN withItems(New(m, RefSchema(elemTypeName(t)))))

\* the success response of a route that has a ResponseType (DocRouter)
successResponseDocRouter(m, route, ord) ==
    IF route.responseType.kind = "nil" THEN Result(m, << >>)
    ELSE IF route.responseType.kind \in {"slice", "array"}
    THEN (LET withSchema(schema) ==
              IF Ran(schema) THEN
                  Result(schema.m,
                         ("200" :> DescribedContent(<<"Successful response">>,
                                                    schema.ret)))
              ELSE schema
          IN withSchema(New(registerArray(registerElem(m, route.responseType, ord),
                                          route.responseType),
                            RefSchema(ArrayPrefix \o elemTypeName(route.responseType)))))
    ELSE (LET withSchema(schema) ==
              IF Ran(schema) THEN
                  Result(schema.m,
                         ("200" :> DescribedContent(<<"Successful response">>,
                                                    schema.ret)))
              ELSE schema
          IN withSchema(schemaRefDocRouter(m, route.responseType, ord)))

\* respObj of a declared response with a schema (DocRouter): the
\* description and the content, the examples beside the schema
respObj(description, schema, examples) ==
    ("description" :> StrV(description)) @@
    ("content" :>
        ("application/json" :>
            (("schema" :> MapV(schema)) @@
             examplesEntry(examplesByName(examples)))))

\* the loop over route.Responses (DocRouter)
RECURSIVE declaredResponsesDocRouter(_, _, _, _, _)
declaredResponsesDocRouter(m, declared, statuses, responses, ord) ==
    IF statuses = << >> THEN Result(m, responses)
    ELSE IF declared[Head(statuses)].schema.kind # "nil"
    THEN (LET withSchema(schema) ==
              IF Ran(schema) THEN
                  declaredResponsesDocRouter(
                      schema.m, declared, Tail(statuses),
                      (Head(statuses) :>
                          respObj(declared[Head(statuses)].description,
                                  schema.ret,
                                  declared[Head(statuses)].examples)) @@
                      responses,
                      ord)
              ELSE schema
          IN withSchema(schemaRefDocRouter(m, declared[Head(statuses)].schema, ord)))
    ELSE declaredResponsesDocRouter(
             m, declared, Tail(statuses),
             (Head(statuses) :>
                 Described(declared[Head(statuses)].description)) @@ responses,
             ord)

\* if len(responses) == 0: the default response
defaultResponse(responses) ==
    IF DOMAIN responses = {}
    THEN ("200" :> Described(<<"Successful operation">>))
    ELSE responses

\* DocRouter.generateResponses
generateResponsesDocRouter(m, route, statuses, ord) ==
    (LET withSuccess(success) ==
         IF Ran(success) THEN
    (LET withDeclared(declared) ==
         IF Ran(declared) THEN
             Result(declared.m,
                    defaultResponse(namedResponses(route, declared.ret)))
         ELSE declared
     IN withDeclared(declaredResponsesDocRouter(success.m, route.responses, statuses,
                                                success.ret, ord)))
         ELSE success
     IN withSuccess(successResponseDocRouter(m, route, ord)))

\* the request body object around the schema reference
RequestBody(route, schema) ==
    ("description" :> StrV(<<"request body for ">> \o route.name)) @@
    ("required" :> TRUE) @@
    ("content" :> JSONContent(schema))

generateRequestBody(m, route, ord) ==
    (LET withSchema(schema) ==
         IF Ran(schema) THEN
             Result(schema.m, RequestBody(route, schema.ret))
         ELSE schema
     IN withSchema(schemaRef(m, route.requestType, ord)))

generateRequestBodyDocRouter(m, route, ord) ==
    (LET withSchema(schema) ==
         IF Ran(schema) THEN
             Result(schema.m, RequestBody(route, schema.ret))
         ELSE schema
     IN withSchema(schemaRefDocRouter(m, route.requestType, ord)))

\* fmt.Sprintf("%s_%s", method, strings.ReplaceAll(route.Path, "/", "_"))
operationId(route) ==
    ToLower(route.method) \o <<"_">> \o ReplaceAll(route.path, "/", "_")

\* the operation literal, and the parameters if the path has any; the
\* model's routes have no tags
Operation(route, responses) ==
    (LET withPathParams(pathParams) ==
         IF Ran(pathParams) THEN
             IF Len(pathParams) > 0
             THEN ("parameters" :> generatePathParameters(pathParams))
             ELSE << >>
         ELSE pathParams
     IN withPathParams(extractPathParams(route.path))) @@
    ("summary" :> StrV(route.name)) @@
    ("description" :> StrV(route.description)) @@
    ("operationId" :> StrV(operationId(route))) @@
    ("responses" :> responses)

\* []map[string][]string{{"bearerAuth": {}}}
BearerAuthRequirement == << ("bearerAuth" :> << >>) >>

\* the operation of the DocRouter: the security requirement is added if the
\* route is secured and bearer authentication is enabled on the router
OperationDocRouter(route, responses) ==
    (IF route.secured /\ useBearerAuth
     THEN ("security" :> BearerAuthRequirement) ELSE << >>) @@
    Operation(route, responses)

\* a request body for the upper-case spellings only
HasRequestBodyUpperCase(route) ==
    /\ route.requestType.kind # "nil"
    /\ route.method \in { [i \in DOMAIN word |-> ToUpper(word[i])] :
                            word \in {Post, Put, Patch} }

\* a request body is documented for POST, PUT and PATCH
HasRequestBody(route) ==
    /\ route.requestType.kind # "nil"
    /\ ToLower(route.method) \in {Post, Put, Patch}

\* the body of the loop over the routes, for a route that is not skipped
\* (OpenAPIGenerator).  No route of the model declares two responses with
\* a schema, so the order in which route.Responses is ranged over is
\* immaterial.
routeOperation(m, route, ord) ==
    (LET withResponses(responses) ==
         IF Ran(responses) THEN
             IF HasRequestBody(route)
             THEN (LET withBody(body) ==
                       IF Ran(body) THEN
                           Result(body.m,
                                  ("requestBody" :> body.ret) @@
                                  Operation(route, responses.ret))
                       ELSE body
                   IN withBody(generateRequestBody(responses.m, route, ord)))
             ELSE Result(responses.m, Operation(route, responses.ret))
         ELSE responses
     IN withResponses(generateResponses(m, route, SeqOf(DOMAIN route.responses), ord)))

\* the body of the loop over the routes, for a route that is not skipped
\* (DocRouter)
routeOperationDocRouter(m, route, ord) ==
    (LET withResponses(responses) ==
         IF Ran(responses) THEN
             IF HasRequestBody(route)
             THEN (LET withBody(body) ==
                       IF Ran(body) THEN
                           Result(body.m,
                                  ("requestBody" :> body.ret) @@
                                  OperationDocRouter(route, responses.ret))
                       ELSE body
                   IN withBody(generateRequestBodyDocRouter(responses.m, route, ord)))
             ELSE Result(responses.m,
                         OperationDocRouter(route, responses.ret))
         ELSE responses
     IN withResponses(generateResponsesDocRouter(m, route, SeqOf(DOMAIN route.responses),
                                                 ord)))

\* pathItem[method] = operation, on the path item made when the path is new
setOperation(paths, path, method, operation) ==
    (path :> ((method :> operation) @@
              (IF path \in DOMAIN paths THEN paths[path] ELSE << >>))) @@ paths

\* OpenAPIGenerator.generatePaths, from route i on
RECURSIVE generatePaths(_, _, _, _, _)
generatePaths(m, rts, i, paths, ord) ==
    IF i > Len(rts) THEN Result(m, paths)
    ELSE IF skipped(rts[i].path)
    THEN generatePaths(m, rts, i + 1, paths, ord)
    ELSE (LET withOperation(operation) ==
              IF Ran(operation) THEN
                  generatePaths(operation.m, rts, i + 1,
                                setOperation(paths, rts[i].path,
                                             ToLower(rts[i].method),
                                             operation.ret),
                                ord)
              ELSE operation
          IN withOperation(routeOperation(m, rts[i], ord)))

\* DocRouter.generatePaths, from route i on
RECURSIVE generatePathsDocRouter(_, _, _, _, _)
generatePathsDocRouter(m, rts, i, paths, ord) ==
    IF i > Len(rts) THEN Result(m, paths)
    ELSE IF skipped(rts[i].path)
    THEN generatePathsDocRouter(m, rts, i + 1, paths, ord)
    ELSE (LET withOperation(operation) ==
              IF Ran(operation) THEN
                  generatePathsDocRouter(operation.m, rts, i + 1,
                                         setOperation(paths, rts[i].path,
                                                      ToLower(rts[i].method),
                                                      operation.ret),
                                         ord)
              ELSE operation
          IN withOperation(routeOperationDocRouter(m, rts[i], ord)))

\* the bearerAuth security scheme
BearerAuthScheme ==
    [type |-> "http", scheme |-> "bearer", bearerFormat |-> "JWT",
     description |-> "JWT token for authentication"]

\* OpenAPIGenerator.generateComponents: the schemas, and the custom
\* responses when there are any
generateComponents(m) ==
    [schemas |-> getSchemas(m)] @@
    (IF DOMAIN customResponses # {}
     THEN [responses |-> customResponses] ELSE << >>)

\* DocRouter.generateComponents: the security schemes as well, if bearer
\* authentication is enabled
generateComponentsDocRouter(m) ==
    generateComponents(m) @@
    (IF useBearerAuth
     THEN [securitySchemes |-> [bearerAuth |-> BearerAuthScheme]]
     ELSE << >>)

\* OpenAPIGenerator.Generate: the paths, then the components
generateDocument(paths) ==
    Result(paths.m, [paths |-> paths.ret,
                     components |-> generateComponents(paths.m)])

\* DocRouter.OpenAPI: the paths, then the components, and the global
\* security requirement if bearer authentication is enabled; the model's
\* routers have no servers and no tags
OpenAPI(paths) ==
    Result(paths.m,
           [paths |-> paths.ret,
            components |-> generateComponentsDocRouter(paths.m)] @@
           (IF useBearerAuth
            THEN [security |-> BearerAuthRequirement] ELSE << >>))

-----------------------------------------------------------------------------
(* http.ServeMux, as the DocRouter uses it *)

\* "METHOD /path", and the pattern "/" that has no method
Pattern(method, path) == [method |-> method, path |-> path]
CatchAll == Pattern(<< >>, <<"/">>)

\* http.NewServeMux(): no pattern is handled
NewServeMux == << >>

\* mux.Handle(pattern, handler)
Handle(m, pattern, handler) == (pattern :> handler) @@ m

\* the handler of a registered route
RouteHandler(method, path) ==
    [kind |-> "route", method |-> method, path |-> path]

\* the handler Use registers under "/": the middleware around the mux that
\* was the router's mux until then
ChainHandler(middleware, next) ==
    [kind |-> "chain", middleware |-> middleware, next |-> next]

\* no request was served yet
NotServed == [handler |-> [kind |-> "none"], through |-> << >>]

\* a segment of a pattern matches a segment of a request path: a {name}
\* wildcard matches any non-empty segment, another segment matches itself
SegmentMatches(p, s) ==
    IF Len(p) > 1 /\ p[1] = "{" /\ p[Len(p)] = "}" THEN s # << >>
    ELSE p = s

\* the pattern matches the request: "/" matches every request, a pattern
\* with a method matches that method and a path of the same segments
Matches(pattern, request) ==
    \/ pattern = CatchAll
    \/ /\ pattern.method = request.method
       /\ Len(Split(pattern.path, "/")) = Len(Split(request.path, "/"))
       /\ \A k \in DOMAIN Split(pattern.path, "/") :
             SegmentMatches(Split(pattern.path, "/")[k],
                            Split(request.path, "/")[k])

\* mux.ServeHTTP: the handler of the most specific matching pattern runs (a
\* pattern with a method and a path is more specific than "/"); the chain
\* handler runs its middleware, outermost first, and then the mux inside;
\* without a matching pattern the request is not found
RECURSIVE ServeMux(_, _, _)
ServeMux(m, request, through) ==
    IF \E pattern \in DOMAIN m \ {CatchAll} : Matches(pattern, request)
    THEN [handler |-> m[CHOOSE pattern \in DOMAIN m \ {CatchAll} :
                            Matches(pattern, request)],
          through |-> through]
    ELSE IF CatchAll \in DOMAIN m
    THEN ServeMux(m[CatchAll].next, request,
                  through \o m[CatchAll].middleware)
    ELSE [handler |-> [kind |-> "404"], through |-> through]

-----------------------------------------------------------------------------
(* The declared types the model explores *)

Impls == {"OpenAPIGenerator", "DocRouter"}

\* an exported field with a json tag
Fld(name, json, type) ==
    [name |-> name, pkgPath |-> "", tag |-> [NoTags EXCEPT !.json = json],
     type |-> type]

StructDecl(name, fields) == [name |-> name, fields |-> fields]

\* the table of the struct types 1, 2, 3 beside time.Time
Table(s1, s2, s3) == (TimeId :> TimeStruct) @@ (1 :> s1) @@ (2 :> s2) @@ (3 :> s3)

\* the ways a field of the model's structs refers to a struct type: directly,
\* by pointer, as the element of a slice or array, as the value of a map, as
\* a slice of pointers, as a slice of slices
Direct(t) == t
SliceOfPtr(t) == SliceT(PtrT(t))
SliceOfSlice(t) == SliceT(SliceT(t))

\* Registry scenarios: struct 1 is the root (named T, named A or anonymous),
\* its property "a" reaches struct 2 and an optional second property "A" or
\* "aItem" reaches struct 3; struct 2 (named U, or TA beside a root T)
\* reaches struct 3 or nothing; struct 3 (named V) is a leaf or points back
\* to the root.
TypeNames == { << <<"T">>, <<"U">> >>, << <<"T">>, <<"T","A">> >>,
               << <<"A">>, <<"U">> >>, << << >>, <<"U">> >> }

RootFirst == { StructT(2), PtrT(StructT(2)), SliceT(StructT(2)),
               MapT(StructT(2)) }
RootSecond == { << >>,
                << Fld(<<"X">>, <<"A">>, StructT(3)) >>,
                << Fld(<<"Y">>, <<"a","I","t","e","m">>, StructT(3)) >> }
MidField == { BasicT("string"), StructT(3), SliceT(StructT(3)) }
LeafField == { BasicT("string"), PtrT(StructT(1)) }

RegistryTables ==
    { Table(StructDecl(n[1], << Fld(<<"A">>, <<"a">>, f1) >> \o f2),
            StructDecl(n[2], << Fld(<<"B">>, <<"b">>, g) >>),
            StructDecl(<<"V">>, << Fld(<<"C">>, <<"c">>, h) >>)) :
        <<n, f1, f2, g, h>> \in
            TypeNames \X RootFirst \X RootSecond \X MidField \X LeafField }

\* the serialized names of the fields the table declares
PropNames(tbl) ==
    UNION { { parseJsonTag(tbl[id].fields[i].tag.json,
                           tbl[id].fields[i].name).name :
                i \in DOMAIN tbl[id].fields } : id \in DOMAIN tbl }

\* The orders in which a range statement may visit the keys of a map.  No
\* struct of the model has more than two properties, so one order of the
\* names and its reverse give every relative order of two keys.
RangeOrders == { SeqOf(PropNames(types)), Reverse(SeqOf(PropNames(types))) }

\* the values handed to schemaRef
RefInputs == { NilValue, StructT(1), StructT(2), PtrT(StructT(1)),
               BasicT("string") }

\* Generator scenarios: struct 1 (T) reaches struct 2 (U) in every way a
\* field can, and has a second field; struct 2 reaches struct 3 (V), or
\* reaches back; struct 3 is a leaf of some kind, or reaches back.  A
\* reference back to a struct that is being declared goes through a pointer,
\* a slice or a map, as Go requires.
LinksTo(id) ==
    { StructT(id), PtrT(StructT(id)), SliceT(StructT(id)),
      ArrayT(StructT(id)), MapT(StructT(id)), SliceOfPtr(StructT(id)),
      SliceOfSlice(StructT(id)) }
BackTo(id) == { PtrT(StructT(id)), SliceT(StructT(id)), MapT(StructT(id)) }

GenRootSecond == { BasicT("string"), StructT(2), StructT(3),
                   MapT(StructT(3)), PtrT(StructT(1)) }
GenMidField == { BasicT("string"), PtrT(StructT(2)) } \cup LinksTo(3)
                    \cup BackTo(1)
GenLeafField == { BasicT("string"), BasicT("bool"), TimeType, RawMessageType,
                  InterfaceT, PtrT(StructT(1)), SliceT(StructT(3)) }

GeneratorTables ==
    { Table(StructDecl(<<"T">>, << Fld(<<"A">>, <<"a">>, x),
                                   Fld(<<"B">>, <<"b">>, y) >>),
            StructDecl(<<"U">>, << Fld(<<"C">>, <<"c">>, z) >>),
            StructDecl(<<"V">>, << Fld(<<"D">>, <<"d">>, w) >>)) :
        <<x, y, z, w>> \in
            LinksTo(2) \X GenRootSecond \X GenMidField \X GenLeafField }

\* Tag scenarios: the three fields of struct 1 (T) are each tagged with a
\* name, tagged with a name and omitempty, tagged ",omitempty", tagged "-",
\* untagged, or unexported.
TagChoices ==
    { [json |-> <<"x">>, pkgPath |-> ""],
      [json |-> <<"x", ",">> \o OmitEmpty, pkgPath |-> ""],
      [json |-> <<",">> \o OmitEmpty, pkgPath |-> ""],
      [json |-> <<"-">>, pkgPath |-> ""],
      [json |-> << >>, pkgPath |-> ""],
      [json |-> << >>, pkgPath |-> "main"] }

\* field number i, named after its position, tagged as choice says
TagFld(i, choice) ==
    [name |-> <<UpperCase[i]>>, pkgPath |-> choice.pkgPath,
     tag |-> [NoTags EXCEPT
                 !.json = [k \in DOMAIN choice.json |->
                             IF choice.json[k] = "x" THEN LowerCase[i]
                             ELSE choice.json[k]]],
     type |-> IF i = 2 THEN StructT(2) ELSE BasicT("string")]

TagTables ==
    { Table(StructDecl(<<"T">>, << TagFld(1, c1), TagFld(2, c2),
                                   TagFld(3, c3) >>),
            StructDecl(<<"U">>, << TagFld(4, c1), TagFld(5, c3) >>),
            StructDecl(<<"V">>, << Fld(<<"D">>, <<"d">>, BasicT("string")) >>)) :
        <<c1, c2, c3>> \in TagChoices \X TagChoices \X TagChoices }

\* Special-type scenarios: the one field of struct 1 (T) is a timestamp or a
\* raw message, directly, by pointer, as the element of a slice or array, or
\* as the value of a map
SpecialTypes == { TimeType, RawMessageType }

SpecialFields ==
    UNION { { s, PtrT(s), SliceT(s), ArrayT(s), MapT(s) } : s \in SpecialTypes }

SpecialTables ==
    { Table(StructDecl(<<"T">>, << Fld(<<"A">>, <<"a">>, x) >>),
            StructDecl(<<"U">>, << Fld(<<"C">>, <<"c">>, BasicT("string")) >>),
            StructDecl(<<"V">>, << Fld(<<"D">>, <<"d">>, BasicT("string")) >>)) :
        x \in SpecialFields }

\* the values handed to generate: the dynamic type of a non-nil interface
\* value is never an interface type
GenInputs ==
    { NilValue, StructT(1), StructT(2), PtrT(StructT(1)),
      PtrT(PtrT(StructT(1))), BasicT("string"), BasicT("int"), BasicT("bool"),
      BasicT("float64"), PtrT(BasicT("string")), SliceT(StructT(1)),
      ArrayT(BasicT("int")), MapT(BasicT("string")), ChanT(BasicT("int")),
      FuncT, TimeType, RawMessageType }

\* the schemas callers hand to register themselves
StringLiteral == [type |-> StrV(<<"string">>)]
ObjectLiteral ==
    [type |-> StrV(<<"object">>),
     properties |-> [k |-> "map", t |-> (<<"s">> :> [k |-> "map",
                                                      t |-> StringLiteral])]]
Literals == { StringLiteral, ObjectLiteral }

-----------------------------------------------------------------------------
(* Reading schemas back from the heap *)

NilTree == [k |-> "nil"]

\* the value a map-typed address denotes: the map with every nested map in
\* place of its address
RECURSIVE Tree(_, _)
Tree(h, a) ==
    IF a = NilAddr THEN NilTree
    ELSE [key \in DOMAIN h[a] |->
            IF IsMapV(h[a][key])
            THEN [k |-> "map", t |-> Tree(h, h[a][key].a)]
            ELSE h[a][key]]

\* the map literal tree built on the heap, as Go builds a composite literal
RECURSIVE Build(_, _)
RECURSIVE BuildKeys(_, _, _, _)
BuildKeys(m, tree, keys, obj) ==
    IF keys = << >> THEN New(m, obj)
    ELSE LET key == Head(keys)
         IN IF tree[key].k = "map"
            THEN LET sub == Build(m, tree[key].t)
                 IN BuildKeys(sub.m, tree, Tail(keys),
                              (key :> MapV(sub.ret)) @@ obj)
            ELSE BuildKeys(m, tree, Tail(keys), (key :> tree[key]) @@ obj)

Build(m, tree) == BuildKeys(m, tree, SeqOf(DOMAIN tree), << >>)

-----------------------------------------------------------------------------
(* The state machine *)

MaxCalls == 2

Cur == Machine(heap, registry, {}, FALSE)

Start ==
    /\ heap = << >>
    /\ registry = << >>
    /\ call = [op |-> "none"]
    /\ ret = NilAddr
    /\ processed = {}
    /\ diverged = FALSE
    /\ ncalls = 0
    /\ routes = << >>
    /\ routeResponses = << >>
    /\ doc = << >>
    /\ useBearerAuth = FALSE
    /\ customResponses = << >>
    /\ mux = NewServeMux
    /\ served = NotServed

Init ==
    /\ impl \in Impls
    /\ types \in RegistryTables
    /\ Start

\* the effect r of a Go call on the variables
Returns(r) ==
    /\ heap' = r.m.heap
    /\ registry' = r.m.reg
    /\ processed' = r.m.processed
    /\ diverged' = (diverged \/ r.m.diverged)
    /\ ret' = r.ret
    /\ ncalls' = ncalls + 1
    /\ UNCHANGED <<impl, types, routes, routeResponses, doc, config, serving>>

\* g.schemaRef(t) / dr.schemaRef(t)
SchemaRef(t, ord) ==
    /\ ncalls < MaxCalls
    /\ call' = [op |-> "schemaRef", arg |-> t]
    /\ Returns(IF impl = "OpenAPIGenerator" THEN schemaRef(Cur, t, ord)
               ELSE schemaRefDocRouter(Cur, t, ord))

\* registry.register(name, literal), as the callers of the registry do
Register(name, literal) ==
    /\ ncalls < MaxCalls
    /\ call' = [op |-> "register", name |-> name, schema |-> literal]
    /\ LET schema == Build(Cur, literal)
       IN Returns(Result(register(schema.m, name, schema.ret), NilAddr))

\* the names callers register under: the names of the declared types
RegisterNames == { types[id].name : id \in {1, 2} } \ { << >> }

Next ==
    \/ \E t \in RefInputs, ord \in RangeOrders : SchemaRef(t, ord)
    \/ \E name \in RegisterNames, literal \in Literals : Register(name, literal)

Spec == Init /\ [][Next]_vars

\* newSchemaGenerator().generate(t), once per behaviour
Generate(t) ==
    /\ call.op = "none"
    /\ call' = [op |-> "generate", arg |-> t]
    /\ Returns(jsonSchema(Cur, t))

InitGen ==
    /\ impl = "OpenAPIGenerator"
    /\ types \in GeneratorTables \cup TagTables \cup SpecialTables
    /\ Start

NextGen == \E t \in GenInputs : Generate(t)

SpecGen == InitGen /\ [][NextGen]_vars

\* the parts json tags are written with, and the tags of up to MaxParts
\* parts joined by commas
TagParts == { << >>, <<"n">>, OmitEmpty, <<"o","m","i","t">>,
              <<"s","t","r","i","n","g">> }
MaxParts == 3
FieldNames == { <<"F">>, <<"I","D">> }

RECURSIVE JoinParts(_)
JoinParts(parts) ==
    IF Len(parts) = 1 THEN parts[1]
    ELSE parts[1] \o <<",">> \o JoinParts(Tail(parts))

TagInputs ==
    UNION { [1..n -> TagParts] : n \in 1..MaxParts }

\* parseJsonTag(jsonTag, field.Name) on the tag the chosen parts spell
ParseJsonTag ==
    /\ call.op = "tag"
    /\ call' = [call EXCEPT !.op = "parseJsonTag"]
    /\ ret' = parseJsonTag(JoinParts(call.parts), call.fieldName)
    /\ ncalls' = ncalls + 1
    /\ UNCHANGED <<impl, types, heap, registry, processed, diverged, routes,
                   routeResponses, doc, config, serving>>

InitTag ==
    /\ impl = "OpenAPIGenerator"
    /\ types = Table(StructDecl(<<"T">>, << >>), StructDecl(<<"U">>, << >>),
                     StructDecl(<<"V">>, << >>))
    /\ heap = << >>
    /\ registry = << >>
    /\ \E parts \in TagInputs, fieldName \in FieldNames :
          call = [op |-> "tag", parts |-> parts, fieldName |-> fieldName]
    /\ ret = NilAddr
    /\ processed = {}
    /\ diverged = FALSE
    /\ ncalls = 0
    /\ routes = << >>
    /\ routeResponses = << >>
    /\ doc = << >>
    /\ useBearerAuth = FALSE
    /\ customResponses = << >>
    /\ mux = NewServeMux
    /\ served = NotServed

NextTag == ParseJsonTag

SpecTag == InitTag /\ [][NextTag]_vars

\* Document scenarios.  Struct 1 (T) is the response type and holds a
\* struct 2 (U), which is also the type of request bodies and of declared
\* responses.
DocTables ==
    { Table(StructDecl(<<"T">>, << Fld(<<"A">>, <<"a">>, StructT(2)) >>),
            StructDecl(<<"U">>, << Fld(<<"B">>, <<"b">>, BasicT("string")) >>),
            StructDecl(<<"V">>, << Fld(<<"C">>, <<"c">>, BasicT("string")) >>)) }

\* the path templates: literal segments, placeholders, a trailing slash,
\* two templates that differ in "/" against "_", and two regex patterns
PathA == <<"/","a">>
PathAB == <<"/","a","/","b">>
PathA_B == <<"/","a","_","b">>
PathAI == <<"/","a","/","{","i","}">>
PathAIBJ == <<"/","a","/","{","i","d","}","/","b","/","{","j","}">>
PathAISlash == <<"/","a","/","{","i","}","/">>
PathParen == <<"/","a","/","(","b",")">>
PathCaret == <<"/","^","a">>

MethodGET == <<"G","E","T">>
MethodPOST == <<"P","O","S","T">>

\* RouteInfo (Name and Description are the same for every route)
RouteInfo(method, path, requestType, responseType, responses) ==
    [method |-> method, path |-> path, name |-> <<"n">>,
     description |-> <<"d">>, requestType |-> requestType,
     responseType |-> responseType, responses |-> responses,
     secured |-> FALSE]

\* RouteResponse without examples
RouteResponse(description, schema) ==
    [description |-> description, schema |-> schema, examples |-> << >>]

\* Example{ContentType, Value}
Example(contentType, value) == [contentType |-> contentType, value |-> value]

\* rc.WithErrorResponse(statusCode, description, schema, examples...)
WithErrorResponse(route, statusCode, description, schema, examples) ==
    [route EXCEPT !.responses =
        (statusCode :> [description |-> description, schema |-> schema,
                        examples |-> examples]) @@ @]

\* rc.WithSecurity()
WithSecurity(route) == [route EXCEPT !.secured = TRUE]

\* what routes declare under Responses: nothing, a 404 without schema, a
\* 200 with a schema
DeclaredResponses ==
    { << >>,
      ("404" :> RouteResponse(<<"not found">>, NilValue)),
      ("200" :> RouteResponse(<<"ok">>, StructT(2))) }

\* what routes declare as ResponseType: nothing, a named struct, a slice of
\* it
ResponseTypes == { NilValue, StructT(1), SliceT(StructT(1)) }

\* the response type and the declared responses of one route
ResponseShapes ==
    (ResponseTypes \X { << >> })
    \cup ({ NilValue } \X DeclaredResponses)
    \cup { << SliceT(StructT(1)),
              ("200" :> RouteResponse(<<"ok">>, StructT(2))) >> }

\* the routes: the response shapes on one endpoint, a second endpoint
\* with a sequence response, one plain route for each of the other
\* templates and methods, and a regex route with a response type
RouteInputs ==
    { RouteInfo(MethodGET, PathA, NilValue, shape[1], shape[2]) :
        shape \in ResponseShapes }
    \cup { RouteInfo(MethodGET, path, NilValue, NilValue, << >>) :
             path \in {PathA_B, PathAIBJ, PathAISlash, PathCaret} }
    \cup { RouteInfo(MethodGET, PathAB, NilValue, SliceT(StructT(1)), << >>),
           RouteInfo(Get, PathA, NilValue, NilValue, << >>),
           RouteInfo(MethodPOST, PathAI, StructT(2), NilValue, << >>),
           RouteInfo(MethodGET, PathParen, NilValue, StructT(1), << >>) }

MaxRoutes == 2

\* RouteConfig.Register: mux.Handle panics on a pattern that is registered
\* already, otherwise the route is appended.  Routes are registered before
\* the first document is asked for.
RouteRegister(route) ==
    /\ ncalls = 0
    /\ Len(routes) < MaxRoutes
    /\ Pattern(route.method, route.path) \notin DOMAIN mux
    /\ mux' = Handle(mux, Pattern(route.method, route.path),
                     RouteHandler(route.method, route.path))
    /\ routes' = Append(routes, route)
    /\ call' = [op |-> "Register"]
    /\ UNCHANGED <<impl, types, heap, registry, ret, processed, diverged,
                   ncalls, routeResponses, doc, config, served>>

\* RegisterRouteResponse(routePath, method, statusCode, responseName),
\* called before the first document is asked for
RegisterRouteResponse(routePath, method, statusCode, responseName) ==
    /\ ncalls = 0
    /\ routeResponses' =
          (routeID(method, routePath) :>
              ((statusCode :> responseName) @@
               (IF routeID(method, routePath) \in DOMAIN routeResponses
                THEN routeResponses[routeID(method, routePath)]
                ELSE << >>))) @@ routeResponses
    /\ call' = [op |-> "RegisterRouteResponse"]
    /\ UNCHANGED <<impl, types, heap, registry, ret, processed, diverged,
                   ncalls, routes, doc, config, serving>>

\* the names of the custom responses routes are associated with
ResponseNames == { <<"E","r","r">> }

\* g.Generate() / dr.OpenAPI()
GenerateDocument(ord) ==
    /\ ncalls < MaxCalls
    /\ call' = [op |-> "document"]
    /\ LET r == IF impl = "OpenAPIGenerator"
                THEN generateDocument(
                         generatePaths(Cur, routes, 1, << >>, ord))
                ELSE OpenAPI(
                         generatePathsDocRouter(Cur, routes, 1, << >>, ord))
       IN /\ heap' = r.m.heap
          /\ registry' = r.m.reg
          /\ processed' = r.m.processed
          /\ diverged' = (diverged \/ r.m.diverged)
          /\ doc' = r.ret
    /\ ret' = NilAddr
    /\ ncalls' = ncalls + 1
    /\ UNCHANGED <<impl, types, routes, routeResponses, config, serving>>

InitDoc ==
    /\ impl \in Impls
    /\ types \in DocTables
    /\ Start

NextDoc ==
    \/ \E route \in RouteInputs : RouteRegister(route)
    \/ \E statusCode \in {"200", "500"}, responseName \in ResponseNames :
          RegisterRouteResponse(PathA, MethodGET, statusCode, responseName)
    \/ \E ord \in RangeOrders : GenerateDocument(ord)

SpecDoc == InitDoc /\ [][NextDoc]_vars


\* Operation scenarios: routes of every method on one path, with and
\* without a request type, secured or not, on a router with or without
\* bearer authentication
MethodPUT == <<"P","U","T">>
MethodPATCH == <<"P","A","T","C","H">>
MethodDELETE == <<"D","E","L","E","T","E">>

OpRoutes ==
    { RouteInfo(method, PathA, StructT(2), NilValue, << >>) :
        method \in { MethodGET, MethodPOST, MethodPUT, MethodPATCH,
                     MethodDELETE, Post } }
    \cup { RouteInfo(method, PathA, NilValue, NilValue, << >>) :
             method \in { MethodGET, MethodPOST } }
    \cup { WithSecurity(RouteInfo(MethodGET, PathA, NilValue, NilValue, << >>)),
           WithSecurity(RouteInfo(MethodPOST, PathA, StructT(2), NilValue,
                                  << >>)) }

\* dr.WithBearerAuth(), called before the first document is asked for
WithBearerAuth ==
    /\ impl = "DocRouter"
    /\ ncalls = 0
    /\ useBearerAuth' = TRUE
    /\ call' = [op |-> "WithBearerAuth"]
    /\ UNCHANGED <<types, impl, heap, registry, ret, processed, diverged,
                   ncalls, routes, routeResponses, doc, customResponses,
                   serving>>

InitOps ==
    /\ impl \in Impls
    /\ types \in DocTables
    /\ Start

NextOps ==
    \/ \E route \in OpRoutes : RouteRegister(route)
    \/ WithBearerAuth
    \/ \E ord \in RangeOrders : GenerateDocument(ord)

SpecOps == InitOps /\ [][NextOps]_vars

\* Response scenarios: routes that declare error responses with and without
\* a schema and examples, routes with response types, custom responses
\* that are registered and associated with GET /a
ExampleX == Example("application/json", <<"x">>)
ExampleY == Example("application/json", <<"y">>)
ExampleZ == Example("text/plain", <<"z">>)

ExampleLists ==
    { << >>, <<ExampleX>>, <<ExampleX, ExampleY>>, <<ExampleX, ExampleZ>> }

RespRoutes ==
    { WithErrorResponse(RouteInfo(MethodGET, PathA, NilValue, NilValue, << >>),
                        "400", <<"bad">>, schema, examples) :
        schema \in { NilValue, StructT(2) }, examples \in ExampleLists }
    \cup { WithErrorResponse(
               WithErrorResponse(
                   RouteInfo(MethodGET, PathAB, NilValue, StructT(1), << >>),
                   "400", <<"bad">>, StructT(2), <<ExampleX>>),
               "404", <<"not found">>, NilValue, << >>),
           RouteInfo(MethodGET, PathAI, NilValue, SliceT(BasicT("string")),
                     << >>),
           RouteInfo(MethodPOST, PathA, StructT(2), SliceT(StructT(1)),
                     << >>) }

\* the response objects callers register under a name
CustomResponses == { ("description" :> StrV(<<"e">>)) }

\* RegisterResponse(name, response), called before the first document is
\* asked for
RegisterResponse(name, response) ==
    /\ ncalls = 0
    /\ customResponses' = (name :> response) @@ customResponses
    /\ call' = [op |-> "RegisterResponse"]
    /\ UNCHANGED <<types, impl, heap, registry, ret, processed, diverged,
                   ncalls, routes, routeResponses, doc, useBearerAuth,
                   serving>>

InitResp ==
    /\ impl \in Impls
    /\ types \in DocTables
    /\ Start

NextResp ==
    \/ \E route \in RespRoutes : RouteRegister(route)
    \/ \E name \in ResponseNames, response \in CustomResponses :
          RegisterResponse(name, response)
    \/ \E responseName \in ResponseNames :
          RegisterRouteResponse(PathA, MethodGET, "500", responseName)
    \/ \E ord \in RangeOrders : GenerateDocument(ord)

SpecResp == InitResp /\ [][NextResp]_vars

\* Determinism scenarios: the registry tables, on a router with a route
\* that responds with struct 1 and a route that takes struct 2 and responds
\* with struct 1
DetRoutes ==
    { RouteInfo(MethodGET, PathA, NilValue, StructT(1), << >>),
      RouteInfo(MethodPOST, PathAB, StructT(2), StructT(1), << >>) }

InitDet ==
    /\ impl \in Impls
    /\ types \in RegistryTables
    /\ Start

NextDet ==
    \/ \E route \in DetRoutes : RouteRegister(route)
    \/ \E ord \in RangeOrders : GenerateDocument(ord)

SpecDet == InitDet /\ [][NextDet]_vars

\* Serving scenarios: a router on which Use and Register are called in any
\* order, and requests
MuxRoutes ==
    { RouteInfo(MethodGET, PathA, NilValue, NilValue, << >>),
      RouteInfo(MethodPOST, PathA, NilValue, NilValue, << >>),
      RouteInfo(MethodGET, PathAI, NilValue, NilValue, << >>) }

\* the middleware handed to one Use call
MiddlewareInputs == { << "logger" >>, << "logger", "recoverer" >> }

Requests ==
    { Pattern(MethodGET, PathA), Pattern(MethodPOST, PathA),
      Pattern(MethodGET, <<"/","a","/","7">>), Pattern(MethodGET, PathAB) }

MaxUses == 2

\* the number of Use calls the mux is the result of
RECURSIVE Uses(_)
Uses(m) == IF CatchAll \in DOMAIN m THEN 1 + Uses(m[CatchAll].next) ELSE 0

\* dr.Use(middleware...): the middleware is wrapped around the current mux,
\* the first outermost, and a new mux forwards every request to that chain
Use(middleware) ==
    /\ Uses(mux) < MaxUses
    /\ mux' = Handle(NewServeMux, CatchAll, ChainHandler(middleware, mux))
    /\ call' = [op |-> "Use"]
    /\ UNCHANGED <<impl, types, heap, registry, ret, processed, diverged,
                   ncalls, routes, routeResponses, doc, config, served>>

\* dr.ServeHTTP(w, r)
ServeHTTP(request) ==
    /\ served' = ServeMux(mux, request, << >>)
    /\ call' = [op |-> "ServeHTTP", request |-> request]
    /\ UNCHANGED <<impl, types, heap, registry, ret, processed, diverged,
                   ncalls, routes, routeResponses, doc, config, mux>>

InitMux ==
    /\ impl = "DocRouter"
    /\ types \in DocTables
    /\ Start

NextMux ==
    \/ \E middleware \in MiddlewareInputs : Use(middleware)
    \/ \E route \in MuxRoutes : RouteRegister(route)
    \/ \E request \in Requests : ServeHTTP(request)

SpecMux == InitMux /\ [][NextMux]_vars
\* Registry-use scenarios: the routes a generator is constructed with
UseRoutes ==
    { << >>,
      << RouteInfo(MethodGET, PathA, NilValue, SliceT(StructT(1)), << >>) >>,
      << RouteInfo(MethodPOST, PathA, StructT(2), StructT(1), << >>) >> }

\* schemas := registry.getSchemas()
GetSchemas ==
    /\ ncalls < MaxCalls
    /\ call' = [op |-> "getSchemas"]
    /\ Returns(getSchemasResult(Cur))

\* the caller still holds the map that getSchemas returned
Holding == call.op \in {"getSchemas", "store", "delete", "write"}

\* the map at the address the caller holds
Held == IF ret = RegistryAddr THEN [name \in DOMAIN registry |->
                                      MapV(registry[name])]
        ELSE heap[ret]

\* the keys of the map the caller holds
HeldNames == IF Holding THEN DOMAIN Held ELSE {}

\* the names the caller stores under: the name of a declared type and a
\* name of its own
CallerNames == { types[1].name, <<"X">> }

\* schemas[name] = nil, by the caller
CallerStore(name) ==
    /\ Holding
    /\ call' = [op |-> "store"]
    /\ IF ret = RegistryAddr
       THEN /\ registry' = (name :> NilAddr) @@ registry
            /\ heap' = heap
       ELSE /\ heap' = [heap EXCEPT ![ret] = (name :> MapV(NilAddr)) @@ @]
            /\ registry' = registry
    /\ UNCHANGED <<impl, types, ret, processed, diverged, ncalls, routes,
                   routeResponses, doc, config, serving>>

\* delete(schemas, name), by the caller
CallerDelete(name) ==
    /\ Holding
    /\ name \in DOMAIN Held
    /\ call' = [op |-> "delete"]
    /\ IF ret = RegistryAddr
       THEN /\ registry' = [n \in DOMAIN registry \ {name} |-> registry[n]]
            /\ heap' = heap
       ELSE /\ heap' = [heap EXCEPT ![ret] =
                           [n \in DOMAIN heap[ret] \ {name} |-> heap[ret][n]]]
            /\ registry' = registry
    /\ UNCHANGED <<impl, types, ret, processed, diverged, ncalls, routes,
                   routeResponses, doc, config, serving>>

\* schemas[name].(map[string]any)["type"] = "changed", by the caller
CallerWrite(name) ==
    /\ Holding
    /\ name \in DOMAIN Held
    /\ Held[name].a # NilAddr
    /\ call' = [op |-> "write"]
    /\ heap' = [heap EXCEPT ![Held[name].a] =
                   ("type" :> StrV(<<"changed">>)) @@ @]
    /\ UNCHANGED <<impl, types, registry, ret, processed, diverged, ncalls,
                   routes, routeResponses, doc, config, serving>>

InitUse ==
    /\ impl \in Impls
    /\ types \in DocTables
    /\ heap = << >>
    /\ registry = << >>
    /\ call = [op |-> "none"]
    /\ ret = NilAddr
    /\ processed = {}
    /\ diverged = FALSE
    /\ ncalls = 0
    /\ routes \in UseRoutes
    /\ routeResponses = << >>
    /\ doc = << >>
    /\ useBearerAuth = FALSE
    /\ customResponses = << >>
    /\ mux = NewServeMux
    /\ served = NotServed

NextUse ==
    \/ \E t \in RefInputs, ord \in RangeOrders : SchemaRef(t, ord)
    \/ \E name \in RegisterNames, literal \in Literals : Register(name, literal)
    \/ \E ord \in RangeOrders : GenerateDocument(ord)
    \/ GetSchemas
    \/ \E name \in CallerNames : CallerStore(name)
    \/ \E name \in HeldNames : CallerDelete(name)
    \/ \E name \in HeldNames : CallerWrite(name)

SpecUse == InitUse /\ [][NextUse]_vars

-----------------------------------------------------------------------------
(* The type graph, read from the declarations *)

\* the fields encoding/json and processStruct see
Visible(id) ==
    { i \in DOMAIN types[id].fields :
        /\ types[id].fields[i].pkgPath = ""
        /\ types[id].fields[i].tag.json # <<"-">> }

JsonName(field) == parseJsonTag(field.tag.json, field.name).name

Unptr(t) == IF t.kind = "ptr" THEN t.elem ELSE t

\* the struct type a type expression reaches through pointers, slices,
\* arrays and maps, as a set (empty when it reaches none)
RECURSIVE StructsIn(_)
StructsIn(t) ==
    IF t.kind = "struct" THEN {t.id}
    ELSE IF t.kind \in {"ptr", "slice", "array", "map"} THEN StructsIn(t.elem)
    ELSE {}

\* the struct types the fields of struct id refer to; a timestamp is a leaf
Edges(id) ==
    UNION { StructsIn(types[id].fields[i].type) : i \in Visible(id) }
        \ {TimeId}

RECURSIVE ReachIn(_, _)
ReachIn(S, n) ==
    IF n = 0 THEN S
    ELSE ReachIn(S \cup UNION { Edges(id) : id \in S }, n - 1)

\* the struct types reachable from struct id in one or more steps
Reach(id) == ReachIn(Edges(id), Cardinality(DOMAIN types))

Acyclic == \A id \in DOMAIN types : id \notin Reach(id)

Max(S) == IF S = {} THEN 0 ELSE CHOOSE x \in S : \A y \in S : y <= x

\* the depth of the type graph below struct id (acyclic graphs only)
RECURSIVE TypeDepth(_)
TypeDepth(id) == 1 + Max({ TypeDepth(x) : x \in Edges(id) })

\* the nesting depth of a schema: the longest chain of object schemas with
\* properties, followed through properties, items and additionalProperties
RECURSIVE SchemaDepth(_)
SchemaDepth(tree) ==
    IF "properties" \in DOMAIN tree
    THEN 1 + Max({ SchemaDepth(tree["properties"].t[p].t) :
                     p \in DOMAIN tree["properties"].t })
    ELSE IF "items" \in DOMAIN tree THEN SchemaDepth(tree["items"].t)
    ELSE IF "additionalProperties" \in DOMAIN tree
    THEN SchemaDepth(tree["additionalProperties"].t)
    ELSE 0

MarkerTree(id) ==
    [type |-> StrV(<<"object">>),
     description |-> StrV(<<CircularPrefix>> \o types[id].name)]

\* some schema inside tree is a circular-reference marker
RECURSIVE HasMarker(_)
HasMarker(tree) ==
    IF "properties" \in DOMAIN tree
    THEN \E p \in DOMAIN tree["properties"].t :
            HasMarker(tree["properties"].t[p].t)
    ELSE IF "items" \in DOMAIN tree THEN HasMarker(tree["items"].t)
    ELSE IF "additionalProperties" \in DOMAIN tree
    THEN HasMarker(tree["additionalProperties"].t)
    ELSE "description" \in DOMAIN tree /\ tree["type"] = StrV(<<"object">>)

\* The struct a field hands to generate, as a set: a struct field or pointer
\* to struct field that is not a timestamp, or a slice, array or map whose
\* element is a struct.
Expands(t) ==
    LET u == Unptr(t)
    IN IF u.kind = "struct" THEN {u.id} \ {TimeId}
       ELSE IF u.kind \in {"slice", "array", "map"} /\ u.elem.kind = "struct"
               /\ u # RawMessageType
       THEN {u.elem.id}
       ELSE {}

\* where the schema of that struct sits in the schema of the field
Expansion(fieldTree, t) ==
    LET u == Unptr(t)
    IN IF u.kind = "struct" THEN fieldTree
       ELSE IF u.kind = "map" THEN fieldTree["additionalProperties"].t
       ELSE fieldTree["items"].t

\* tree is what an occurrence of struct id under the ancestors anc must be:
\* the marker when id is among the ancestors, and otherwise an object schema
\* whose properties hold, for every field that hands a struct to generate,
\* what that occurrence must be under the ancestors anc and id
RECURSIVE CircularOK(_, _, _)
CircularOK(tree, id, anc) ==
    IF id \in anc THEN tree = MarkerTree(id)
    ELSE /\ "properties" \in DOMAIN tree
         /\ tree["type"] = StrV(<<"object">>)
         /\ \A i \in Visible(id) :
               LET field == types[id].fields[i]
               IN \A x \in Expands(field.type) :
                     /\ JsonName(field) \in DOMAIN tree["properties"].t
                     /\ CircularOK(
                            Expansion(tree["properties"].t[JsonName(field)].t,
                                      field.type),
                            x, anc \cup {id})

-----------------------------------------------------------------------------
(* Properties of the generator (SpecGen) *)

Generated == call.op = "generate"
GeneratedStruct == Generated /\ Unptr(call.arg).kind = "struct"

C9_TotalWithFallback ==
    Generated =>
        IF call.arg = NilValue THEN ret = NilAddr
        ELSE ret # NilAddr /\ "type" \in DOMAIN heap[ret]

\* C10: on an acyclic type graph the nesting depth of the schema of a struct
\* is the depth of the type graph below it.
C10_DepthEqualsGraphDepth ==
    (GeneratedStruct /\ Acyclic) =>
        /\ ~diverged
        /\ SchemaDepth(Tree(heap, ret)) = TypeDepth(Unptr(call.arg).id)

-----------------------------------------------------------------------------
(* Properties of schemaRef and the registry (Spec) *)

\* the schema registered under name
Entry(h, reg, name) == Tree(h, reg[name])

\* the schema generation alone produces for t, before any extraction
GenTree(t) ==
    LET schema == jsonSchema(Machine(<< >>, << >>, {}, FALSE), t)
    IN Tree(schema.m.heap, schema.ret)

IsInlineObject(tree) ==
    /\ "type" \in DOMAIN tree
    /\ tree["type"] = StrV(<<"object">>)
    /\ "properties" \in DOMAIN tree

Props(tree) == tree["properties"].t
PropKeys(tree) == DOMAIN Props(tree)

IsArrayOfInline(tree) ==
    /\ "type" \in DOMAIN tree
    /\ tree["type"] = StrV(<<"array">>)
    /\ "items" \in DOMAIN tree
    /\ IsInlineObject(tree["items"].t)

IsMapOfInline(tree) ==
    /\ "additionalProperties" \in DOMAIN tree
    /\ IsInlineObject(tree["additionalProperties"].t)

\* the step is a schemaRef call on a value whose type has a name
RefStep == call'.op = "schemaRef" /\ getTypeName(call'.arg) # << >>

\* the step is a schemaRef call that registers a named struct type
RegisteringStep ==
    /\ RefStep
    /\ Unptr(call'.arg).kind = "struct"
    /\ getTypeName(call'.arg) \notin DOMAIN registry

\* C2: of two consecutive schemaRef calls on values of one named type, both
\* return the reference to the type's name, and the second leaves the
\* registry with the same names and, under the type's name, the very schema
\* the first call left there.
C2_Idempotent ==
    [][(/\ RefStep
        /\ call.op = "schemaRef"
        /\ getTypeName(call.arg) = getTypeName(call'.arg))
       => LET typeName == getTypeName(call'.arg)
          IN /\ Tree(heap, ret) = RefSchema(typeName)
             /\ Tree(heap', ret') = RefSchema(typeName)
             /\ DOMAIN registry' = DOMAIN registry
             /\ typeName \in DOMAIN registry'
             /\ registry'[typeName] = registry[typeName]
             /\ Entry(heap', registry', typeName)
                    = Entry(heap, registry, typeName)]_vars

\* schemaRef(T{}) ran twice and the registry holds the generated schema of T
C2_Witness ==
    /\ ncalls = 2
    /\ call = [op |-> "schemaRef", arg |-> StructT(1)]
    /\ types[1].name = <<"T">>
    /\ <<"T">> \in DOMAIN registry
    /\ IsInlineObject(Entry(heap, registry, <<"T">>))
    /\ <<"a">> \in PropKeys(Entry(heap, registry, <<"T">>))
    /\ Tree(heap, ret) = RefSchema(<<"T">>)

\* C3: a schemaRef call on a value whose type name is already registered
\* allocates nothing but the reference it returns: every map that existed
\* is unchanged, and so is the registry.
C3_RegisteredIsUntouched ==
    [][(RefStep /\ getTypeName(call'.arg) \in DOMAIN registry)
       => /\ registry' = registry
          /\ DOMAIN heap' = DOMAIN heap \cup {ret'}
          /\ ret' \notin DOMAIN heap
          /\ \A a \in DOMAIN heap : heap'[a] = heap[a]
          /\ heap'[ret'] = RefSchema(getTypeName(call'.arg))]_vars

\* schemaRef ran on a struct type whose name held a schema that generation
\* does not produce, and that schema is still the entry
C3_Witness ==
    /\ call.op = "schemaRef"
    /\ Unptr(call.arg).kind = "struct"
    /\ getTypeName(call.arg) \in DOMAIN registry
    /\ Entry(heap, registry, getTypeName(call.arg)) = ObjectLiteral
    /\ Tree(heap, ret) = RefSchema(getTypeName(call.arg))

\* C4: a name once registered stays registered, and the schema under it is
\* the same after every later step.
C4_ImmutableOnceRegistered ==
    [][\A name \in DOMAIN registry :
          /\ name \in DOMAIN registry'
          /\ Entry(heap', registry', name) = Entry(heap, registry, name)]_vars

\* Every property p of the generated schema gen that is an inline object is,
\* in the registry reg, an entry named N + Title(p) with the properties of
\* that object, the entry named N refers to it, and so on below it.
RECURSIVE NamedByPrefix(_, _, _, _)
NamedByPrefix(h, reg, gen, N) ==
    \A p \in PropKeys(gen) :
        IsInlineObject(Props(gen)[p].t) =>
            LET D == N \o Title(p)
            IN /\ N \in DOMAIN reg
               /\ D \in DOMAIN reg
               /\ IsInlineObject(Entry(h, reg, N))
               /\ p \in PropKeys(Entry(h, reg, N))
               /\ Props(Entry(h, reg, N))[p].t = RefSchema(D)
               /\ IsInlineObject(Entry(h, reg, D))
               /\ PropKeys(Entry(h, reg, D)) = PropKeys(Props(gen)[p].t)
               /\ NamedByPrefix(h, reg, Props(gen)[p].t, D)

\* C5: when schemaRef registers a named struct type T, the inline object
\* properties of T are registered under T + Title(p), referred to from T,
\* and so on with the derived name as the prefix.
C5_NestedNamedByPrefix ==
    [][RegisteringStep
       => NamedByPrefix(heap', registry', GenTree(call'.arg),
                        getTypeName(call'.arg))]_vars

\* The same for the properties of gen that are arrays of inline objects:
\* the items are the entry N + Title(p) + "Item".
RECURSIVE ItemsNamedByPrefix(_, _, _, _)
ItemsNamedByPrefix(h, reg, gen, N) ==
    \A p \in PropKeys(gen) :
        IsArrayOfInline(Props(gen)[p].t) =>
            LET D == N \o Title(p) \o ItemSuffix
                items == Props(gen)[p].t["items"].t
            IN /\ N \in DOMAIN reg
               /\ D \in DOMAIN reg
               /\ IsInlineObject(Entry(h, reg, N))
               /\ p \in PropKeys(Entry(h, reg, N))
               /\ "items" \in DOMAIN Props(Entry(h, reg, N))[p].t
               /\ Props(Entry(h, reg, N))[p].t["items"].t = RefSchema(D)
               /\ IsInlineObject(Entry(h, reg, D))
               /\ PropKeys(Entry(h, reg, D)) = PropKeys(items)
               /\ ItemsNamedByPrefix(h, reg, items, D)

\* C6: when schemaRef registers a named struct type T, the items of the
\* array properties of T that are inline objects are registered under
\* T + Title(p) + "Item", referred to from the array, and so on with the
\* derived name as the prefix.
C6_ItemsNamedByPrefix ==
    [][RegisteringStep
       => ItemsNamedByPrefix(heap', registry', GenTree(call'.arg),
                             getTypeName(call'.arg))]_vars

\* C7: when schemaRef registers a named struct type T, the
\* additionalProperties of the map properties of T that are inline objects
\* are replaced by a reference to a registered entry.
C7_MapValuesPromoted ==
    [][RegisteringStep
       => LET typeName == getTypeName(call'.arg)
              gen == GenTree(call'.arg)
              entry == Entry(heap', registry', typeName)
          IN \A p \in PropKeys(gen) :
                IsMapOfInline(Props(gen)[p].t) =>
                    /\ IsInlineObject(entry)
                    /\ p \in PropKeys(entry)
                    /\ \E D \in DOMAIN registry' :
                          Props(entry)[p].t["additionalProperties"].t
                              = RefSchema(D)]_vars

\* the names the references inside a schema point to
RECURSIVE RefsIn(_)
RefsIn(tree) ==
    IF "$ref" \in DOMAIN tree THEN { Tail(tree["$ref"].v) }
    ELSE UNION {
        IF "properties" \in DOMAIN tree
        THEN UNION { RefsIn(Props(tree)[p].t) : p \in PropKeys(tree) }
        ELSE {},
        IF "items" \in DOMAIN tree THEN RefsIn(tree["items"].t) ELSE {},
        IF "additionalProperties" \in DOMAIN tree
        THEN RefsIn(tree["additionalProperties"].t)
        ELSE {} }

\* C8: schemaRef on a value of an unnamed struct type returns the inline
\* object schema, registers nothing under the empty name or the placeholder,
\* and every reference inside the returned schema names a registered entry.
C8_AnonymousInline ==
    [][(/\ call'.op = "schemaRef"
        /\ Unptr(call'.arg).kind = "struct"
        /\ getTypeName(call'.arg) = << >>)
       => /\ IsInlineObject(Tree(heap', ret'))
          /\ DOMAIN registry' \cap {<< >>, AnonymousPrefix}
                = DOMAIN registry \cap {<< >>, AnonymousPrefix}
          /\ RefsIn(Tree(heap', ret')) \subseteq DOMAIN registry']_vars

-----------------------------------------------------------------------------
(* Properties of parseJsonTag (SpecTag) and of "required" (SpecGen) *)

\* C17: parseJsonTag returns required = TRUE exactly when no part of the tag
\* after the first is "omitempty", and returns as name the first part, or
\* the field's identifier when the first part is empty or the tag is absent.
C17_ParseJsonTag ==
    call.op = "parseJsonTag" =>
        /\ ret.required
              = (\A i \in 2..Len(call.parts) : call.parts[i] # OmitEmpty)
        /\ ret.name = IF call.parts[1] = << >> THEN call.fieldName
                      ELSE call.parts[1]

\* the tag ",omitempty" was parsed: the field's identifier, optional
C17_Witness ==
    /\ call.op = "parseJsonTag"
    /\ call.parts = << << >>, OmitEmpty >>
    /\ ret = [name |-> call.fieldName, required |-> FALSE]

\* the serialized names of the required fields of struct id, in declaration
\* order
RequiredNames(id) ==
    LET fields == SelectSeq(types[id].fields,
                            LAMBDA f : /\ f.pkgPath = ""
                                       /\ f.tag.json # <<"-">>
                                       /\ parseJsonTag(f.tag.json,
                                                       f.name).required)
    IN [i \in DOMAIN fields |-> JsonName(fields[i])]

\* tree, the schema of an occurrence of struct id, and every struct schema
\* inside it, has the required names of its struct under "required", or no
\* such key when the struct has none
RECURSIVE RequiredOK(_, _, _)
RequiredOK(tree, id, anc) ==
    \/ id \in anc
    \/ /\ IF RequiredNames(id) = << >> THEN "required" \notin DOMAIN tree
          ELSE /\ "required" \in DOMAIN tree
               /\ tree["required"] = ListV(RequiredNames(id))
       /\ \A i \in Visible(id) :
             LET field == types[id].fields[i]
             IN \A x \in Expands(field.type) :
                   RequiredOK(
                       Expansion(tree["properties"].t[JsonName(field)].t,
                                 field.type),
                       x, anc \cup {id})

\* C18: the "required" list of every generated struct schema holds the
\* serialized names of the required fields in declaration order, unexported
\* and excluded fields skipped, and the key is absent when no field is
\* required.
C18_RequiredInDeclarationOrder ==
    GeneratedStruct =>
        RequiredOK(Tree(heap, ret), Unptr(call.arg).id, {})

\* a struct with a required, an excluded and an optional field was
\* generated
C18_Witness ==
    /\ GeneratedStruct
    /\ Unptr(call.arg).id = 1
    /\ types \in TagTables
    /\ types[1].fields[1].tag.json = <<"-">>
    /\ types[1].fields[2].tag.json = <<"b">>
    /\ types[1].fields[3].tag.json = <<",">> \o OmitEmpty
    /\ Tree(heap, ret)["required"] = ListV(<< <<"b">> >>)

-----------------------------------------------------------------------------
(* Properties of the generated document (SpecDoc) *)

\* a document has just been generated from the routes
Documented == call.op = "document"

\* the lower-case spelling of the methods routes are registered with
LowerMethod(method) ==
    CASE method = MethodGET -> Get
      [] method = MethodPOST -> Post
      [] OTHER -> method

\* the path is a regex pattern
IsRegex(path) == Range(path) \cap {"(", "^"} # {}

\* route i is documented and no later route is documented in its place
Shown(i) ==
    /\ ~IsRegex(routes[i].path)
    /\ \A j \in DOMAIN routes :
          j > i => ~(/\ routes[j].path = routes[i].path
                     /\ LowerMethod(routes[j].method)
                            = LowerMethod(routes[i].method))

\* the operation the document holds for route i
OperationAt(i) == doc.paths[routes[i].path][LowerMethod(routes[i].method)]

\* the path and method pairs the document has an operation for
Operations ==
    { pm \in (DOMAIN doc.paths) \X {Get, Post} : pm[2] \in DOMAIN doc.paths[pm[1]] }

\* C16: a route whose path contains "(" or "^" has no path key and no
\* operation in the generated paths, and every other route has an operation
\* under its literal path and its lower-cased method; the paths hold
\* nothing else.
C16_RegexRoutesSkipped ==
    Documented =>
        /\ \A i \in DOMAIN routes :
              IF IsRegex(routes[i].path)
              THEN routes[i].path \notin DOMAIN doc.paths
              ELSE /\ routes[i].path \in DOMAIN doc.paths
                   /\ LowerMethod(routes[i].method)
                          \in DOMAIN doc.paths[routes[i].path]
        /\ DOMAIN doc.paths
              = { routes[i].path :
                    i \in { j \in DOMAIN routes : ~IsRegex(routes[j].path) } }

\* a document of a regex route with a response type and a plain route: one
\* path, and the response type of the regex route is not registered
C16_Witness ==
    /\ Documented
    /\ Len(routes) = 2
    /\ routes[1].path = PathParen
    /\ routes[2].path = PathAISlash
    /\ DOMAIN doc.paths = {PathAISlash}
    /\ registry = << >>

\* the positions of the character c in the path, in increasing order
Positions(path, c) ==
    LET S == { i \in DOMAIN path : path[i] = c }
    IN [k \in 1..Cardinality(S) |->
           CHOOSE i \in S : Cardinality({ j \in S : j < i }) = k - 1]

\* the names of the {name} placeholders of the path, left to right: what
\* stands between the k-th "{" and the k-th "}"
Placeholders(path) ==
    [k \in DOMAIN Positions(path, "{") |->
        SubSeq(path, Positions(path, "{")[k] + 1,
               Positions(path, "}")[k] - 1)]

\* C15: the parameters of every operation are the placeholders of its path,
\* one parameter for each, left to right, each in the path, required and of
\* type string; an operation whose path has no placeholder has no
\* parameters entry, and a trailing slash adds none.
C15_ParametersArePlaceholders ==
    Documented =>
        \A pm \in Operations :
            LET operation == doc.paths[pm[1]][pm[2]]
                names == Placeholders(pm[1])
            IN IF names = << >> THEN "parameters" \notin DOMAIN operation
               ELSE /\ "parameters" \in DOMAIN operation
                    /\ Len(operation["parameters"]) = Len(names)
                    /\ \A k \in DOMAIN names :
                          /\ operation["parameters"][k].name = names[k]
                          /\ operation["parameters"][k].in = "path"
                          /\ operation["parameters"][k].required = TRUE
                          /\ operation["parameters"][k].schema
                                = [type |-> "string"]

\* a document of /a/{id}/b/{j} and of /a/{i}/: parameters id and j in that
\* order, and the single parameter i
C15_Witness ==
    /\ Documented
    /\ {PathAIBJ, PathAISlash} \subseteq DOMAIN doc.paths
    /\ Len(doc.paths[PathAIBJ][Get]["parameters"]) = 2
    /\ doc.paths[PathAIBJ][Get]["parameters"][1].name = <<"i","d">>
    /\ doc.paths[PathAIBJ][Get]["parameters"][2].name = <<"j">>
    /\ Len(doc.paths[PathAISlash][Get]["parameters"]) = 1

\* C12: no two operations of a document generated from routes with pairwise
\* distinct (method, path) pairs carry the same operationId.
C12_OperationIdCollisionFree ==
    Documented =>
        \A pm1, pm2 \in Operations :
            pm1 # pm2 =>
                doc.paths[pm1[1]][pm1[2]]["operationId"]
                    # doc.paths[pm2[1]][pm2[2]]["operationId"]

\* the custom responses associated with route i: status code -> name
Associated(i) ==
    LET id == LowerMethod(routes[i].method) \o <<":">> \o routes[i].path
    IN IF id \in DOMAIN routeResponses THEN routeResponses[id] ELSE << >>

\* route i has a response of its own under the status code: a declared
\* one, or the success response of its response type
HasOwn(i, status) ==
    \/ status \in DOMAIN routes[i].responses
    \/ status = "200" /\ routes[i].responseType # NilValue

\* C13: a status code associated with a custom response is documented as
\* the reference to that response exactly when the route has no declared
\* response and no success response under that status code.
C13_NamedResponseUnlessOwn ==
    Documented =>
        \A i \in DOMAIN routes :
            Shown(i) =>
                \A status \in DOMAIN Associated(i) :
                    /\ status \in DOMAIN OperationAt(i)["responses"]
                    /\ HasOwn(i, status)
                          <=> OperationAt(i)["responses"][status]
                                  # ResponseRef(Associated(i)[status])

\* the response object is the default: a description and nothing else
IsDefault(response) == response = Described(<<"successful operation">>)

\* C14: every operation has a response; a route with no success type, no
\* declared response and no associated custom response has the single
\* response 200 {description: "successful operation"}, and no other route
\* has a 200 response that it did not declare and that holds a description
\* only.
C14_DefaultOnlyWhenEmpty ==
    Documented =>
        \A i \in DOMAIN routes :
            Shown(i) =>
                /\ DOMAIN OperationAt(i)["responses"] # {}
                /\ IF /\ routes[i].responseType = NilValue
                      /\ routes[i].responses = << >>
                      /\ Associated(i) = << >>
                   THEN /\ DOMAIN OperationAt(i)["responses"] = {"200"}
                        /\ IsDefault(OperationAt(i)["responses"]["200"])
                   ELSE ~(/\ "200" \in DOMAIN OperationAt(i)["responses"]
                          /\ "200" \notin DOMAIN routes[i].responses
                          /\ DOMAIN OperationAt(i)["responses"]["200"]
                                = {"description"})

\* the schema of the JSON content of a response, read from the heap
ResponseSchema(response) ==
    Tree(heap, response["content"]["application/json"]["schema"].a)

\* C11: for a route whose response type is a sequence of a named struct E
\* (and that declares no 200 response of its own), the registry holds E and
\* array_E = {type: array, items: {$ref: E}}, and the 200 response refers to
\* array_E.
C11_SequenceResponseRegistered ==
    Documented =>
        \A i \in DOMAIN routes :
            (/\ Shown(i)
             /\ routes[i].responseType.kind = "slice"
             /\ "200" \notin DOMAIN routes[i].responses) =>
                LET E == TypeName(routes[i].responseType.elem)
                IN /\ {E, ArrayPrefix \o E} \subseteq DOMAIN registry
                   /\ Entry(heap, registry, E)["type"] = StrV(<<"object">>)
                   /\ Entry(heap, registry, ArrayPrefix \o E)
                         = [type |-> StrV(<<"array">>),
                            items |-> [k |-> "map", t |-> RefSchema(E)]]
                   /\ "content" \in DOMAIN OperationAt(i)["responses"]["200"]
                   /\ ResponseSchema(OperationAt(i)["responses"]["200"])
                         = RefSchema(ArrayPrefix \o E)

-----------------------------------------------------------------------------
(* Properties of the registry in use (SpecUse) *)

\* what getSchemas returns, and components.schemas holds, in the state with
\* heap h and registry reg: every name with its schema
SchemasOf(h, reg) ==
    [name \in DOMAIN getSchemas(Machine(h, reg, {}, FALSE)) |->
        Tree(h, getSchemas(Machine(h, reg, {}, FALSE))[name])]

\* C19: the mapping getSchemas returns is a copy: when the caller stores
\* into it or deletes from it, what getSchemas and components.schemas hold
\* from then on is what they held before.
C19_ReturnedMappingIsCopy ==
    [][call'.op \in {"store", "delete"} =>
          SchemasOf(heap', registry') = SchemasOf(heap, registry)]_vars

\* the caller has emptied the mapping it was given, and the registry still
\* holds its schemas
C19_Witness ==
    /\ call.op = "delete"
    /\ ret # NilAddr
    /\ DOMAIN Held = {}
    /\ Cardinality(DOMAIN registry) >= 2

\* C20: the registry grows monotonically: no step of register, schemaRef,
\* extraction or document generation, and no step of a caller of
\* getSchemas, removes a registered name.
C20_RegistryGrowsMonotonically ==
    [][DOMAIN registry \subseteq DOMAIN registry']_vars

\* a document was generated on a registry that already held a schema, and
\* the registry holds more names than before
C20_Witness ==
    /\ call.op = "document"
    /\ ncalls = 2
    /\ Cardinality(DOMAIN registry) >= 3


-----------------------------------------------------------------------------
(* Properties of the visited set (SpecGen) *)

\* the schema generate returns for struct x when the structs anc are being
\* expanded around it
Standalone(x, anc) ==
    (LET withSchema(schema) ==
         IF Ran(schema) THEN
             Tree(schema.m.heap, schema.ret)
         ELSE schema
     IN withSchema(generate(Machine(<< >>, << >>, anc, FALSE), StructT(x), Budget)))

\* the schema found for field i of struct id in the schema tree of id, at
\* the place where the field's struct is expanded
Occurrence(tree, id, i) ==
    Expansion(tree["properties"].t[JsonName(types[id].fields[i])].t,
              types[id].fields[i].type)

\* struct x occurs in field j of struct id or below it
OccursUnder(id, j, x) ==
    \E y \in Expands(types[id].fields[j].type) : x = y \/ x \in Reach(y)

\* every marker in tree, the schema of an occurrence of struct id under the
\* ancestors anc, stands for a struct among the ancestors
RECURSIVE MarkersAtAncestors(_, _, _)
MarkersAtAncestors(tree, id, anc) ==
    IF tree = MarkerTree(id) THEN id \in anc
    ELSE \A i \in Visible(id) :
            \A x \in Expands(types[id].fields[i].type) :
                (/\ "properties" \in DOMAIN tree
                 /\ JsonName(types[id].fields[i]) \in DOMAIN tree["properties"].t)
                => MarkersAtAncestors(Occurrence(tree, id, i), x,
                                      anc \cup {id})

\* C24: a struct that occurs in a field of the generated struct and also in
\* or below another field of it is expanded in the first field as it is when
\* nothing but the generated struct is being expanded, with its properties,
\* and a circular marker stands only where the struct is an ancestor of the
\* occurrence.
C24_SiblingsExpandFully ==
    GeneratedStruct =>
        LET id == Unptr(call.arg).id
        IN /\ \A i, j \in Visible(id) :
                 \A x \in Expands(types[id].fields[i].type) :
                     (i # j /\ x # id /\ OccursUnder(id, j, x)) =>
                        /\ "properties"
                              \in DOMAIN Occurrence(Tree(heap, ret), id, i)
                        /\ Occurrence(Tree(heap, ret), id, i)
                              = Standalone(x, {id})
           /\ MarkersAtAncestors(Tree(heap, ret), id, {})
           /\ processed = {}

\* T was generated with U in both of its fields, the second directly, and
\* both places hold the object schema of U
C24_Witness ==
    /\ GeneratedStruct
    /\ Unptr(call.arg).id = 1
    /\ types[1].fields[1].type \in { StructT(2), SliceT(StructT(2)) }
    /\ types[1].fields[2].type = StructT(2)
    /\ types[2].fields[1].type = StructT(3)
    /\ Visible(1) = {1, 2}
    /\ "properties" \in DOMAIN Occurrence(Tree(heap, ret), 1, 1)
    /\ Occurrence(Tree(heap, ret), 1, 2) = Occurrence(Tree(heap, ret), 1, 1)
    /\ ~HasMarker(Tree(heap, ret))

\* tree, the schema of an occurrence of struct id reached while the structs
\* anc were being expanded, is what generate returns when g.processed is
\* anc, and so is every occurrence below it with id added to anc
RECURSIVE StackExact(_, _, _)
StackExact(tree, id, anc) ==
    /\ tree = Standalone(id, anc)
    /\ id \notin anc =>
          \A i \in Visible(id) :
              \A x \in Expands(types[id].fields[i].type) :
                  /\ "properties" \in DOMAIN tree
                  /\ JsonName(types[id].fields[i])
                        \in DOMAIN tree["properties"].t
                  /\ StackExact(Occurrence(tree, id, i), x, anc \cup {id})

\* C25: g.processed is empty when a top-level generate call has returned,
\* and every struct occurrence inside the result is the schema generate
\* returns when g.processed holds exactly the structs on the call stack at
\* that occurrence.
C25_VisitedIsCallStack ==
    Generated =>
        /\ processed = {}
        /\ ~diverged
        /\ GeneratedStruct =>
              StackExact(Tree(heap, ret), Unptr(call.arg).id, {})

\* T was generated, its first field holding U and its second a pointer back
\* to T: U is expanded, the pointer is the marker, and the set is empty
C25_Witness ==
    /\ GeneratedStruct
    /\ Unptr(call.arg).id = 1
    /\ types[1].fields[1].type = StructT(2)
    /\ types[1].fields[2].type = PtrT(StructT(1))
    /\ Visible(1) = {1, 2}
    /\ "properties" \in DOMAIN Occurrence(Tree(heap, ret), 1, 1)
    /\ Occurrence(Tree(heap, ret), 1, 2) = MarkerTree(1)
    /\ processed = {}

-----------------------------------------------------------------------------
(* Properties of the special types (SpecGen) *)

\* the schemas of the two special types
DateTimeTree == [type |-> StrV(<<"string">>), format |-> StrV(<<"date-time">>)]
OpaqueTree == [type |-> StrV(<<"object">>)]

SpecialTree(s) == IF s = TimeType THEN DateTimeTree ELSE OpaqueTree

\* the schema of field i in the schema tree of struct id
FieldTree(tree, id, i) == tree["properties"].t[JsonName(types[id].fields[i])].t

\* field i of the generated struct holds a special type directly or by
\* pointer, and its schema is the special schema
SpecialField(tree, id, i) ==
    Unptr(types[id].fields[i].type) \in SpecialTypes =>
        FieldTree(tree, id, i) = SpecialTree(Unptr(types[id].fields[i].type))

\* field i is a slice, array or map of a special type, and the schema of
\* its elements or values is the special schema
SpecialElement(tree, id, i) ==
    LET u == Unptr(types[id].fields[i].type)
    IN (/\ u \notin SpecialTypes
        /\ u.kind \in {"slice", "array", "map"}
        /\ u.elem \in SpecialTypes) =>
           IF u.kind = "map"
           THEN /\ "additionalProperties" \in DOMAIN FieldTree(tree, id, i)
                /\ FieldTree(tree, id, i)["additionalProperties"].t
                      = SpecialTree(u.elem)
           ELSE /\ "items" \in DOMAIN FieldTree(tree, id, i)
                /\ FieldTree(tree, id, i)["items"].t = SpecialTree(u.elem)

\* the value handed to generate is of a special type, or a pointer to one,
\* and the schema returned is the special schema
SpecialTopLevel ==
    Unptr(call.arg) \in SpecialTypes =>
        Tree(heap, ret) = SpecialTree(Unptr(call.arg))

\* C26: a timestamp is {type: string, format: date-time} and a raw message
\* is {type: object} as a struct field, as a pointer field, as the element
\* of a slice or array, as the value of a map, and as the value handed to
\* generate.
C26_SpecialTypesEverywhere ==
    Generated =>
        /\ SpecialTopLevel
        /\ (GeneratedStruct /\ Unptr(call.arg) # TimeType) =>
              \A i \in Visible(Unptr(call.arg).id) :
                  /\ SpecialField(Tree(heap, ret), Unptr(call.arg).id, i)
                  /\ SpecialElement(Tree(heap, ret), Unptr(call.arg).id, i)

-----------------------------------------------------------------------------
(* Properties of the router's middleware (SpecMux) *)

\* the middleware added with Use so far
RECURSIVE Middleware(_)
Middleware(m) ==
    IF CatchAll \in DOMAIN m
    THEN Range(m[CatchAll].middleware) \cup Middleware(m[CatchAll].next)
    ELSE {}

\* C29: a request that ServeHTTP hands to the handler of a registered route
\* has passed through every middleware added with Use.
C29_RoutesPassThroughMiddleware ==
    (call.op = "ServeHTTP" /\ served.handler.kind = "route") =>
        Middleware(mux) \subseteq Range(served.through)

-----------------------------------------------------------------------------
(* Properties of the operations (SpecOps) *)

\* route i is documented and no later route is documented in its place
Current(i) ==
    /\ ~IsRegex(routes[i].path)
    /\ \A j \in DOMAIN routes :
          j > i => ~(/\ routes[j].path = routes[i].path
                     /\ ToLower(routes[j].method) = ToLower(routes[i].method))

\* the operation the document holds for route i
OperationOf(i) == doc.paths[routes[i].path][ToLower(routes[i].method)]

\* route i declares a request value and its method is POST, PUT or PATCH in
\* any spelling
TakesBody(i) ==
    /\ routes[i].requestType # NilValue
    /\ ToLower(routes[i].method)
          \in { <<"p","o","s","t">>, <<"p","u","t">>, <<"p","a","t","c","h">> }

\* C22: an operation has a requestBody exactly when its route declares a
\* request value and its method is POST, PUT or PATCH compared without
\* regard to case; the body is required and its JSON schema is what
\* schemaRef returns for the request value, the reference to the registered
\* type; a request value declared on another method is not registered.
C22_RequestBodyOnlyForWritingMethods ==
    Documented =>
        /\ \A i \in DOMAIN routes :
              Current(i) =>
                  IF TakesBody(i)
                  THEN /\ "requestBody" \in DOMAIN OperationOf(i)
                       /\ OperationOf(i)["requestBody"]["required"] = TRUE
                       /\ ResponseSchema(OperationOf(i)["requestBody"])
                             = RefSchema(TypeName(routes[i].requestType))
                       /\ TypeName(routes[i].requestType) \in DOMAIN registry
                  ELSE "requestBody" \notin DOMAIN OperationOf(i)
        /\ DOMAIN registry
              = { TypeName(routes[i].requestType) :
                    i \in { j \in DOMAIN routes : TakesBody(j) } }

\* a document of "post" /a and DELETE /a, both with the request type U: the
\* first has the body, the second has none
C22_Witness ==
    /\ Documented
    /\ Len(routes) = 2
    /\ routes[1].method = <<"p","o","s","t">>
    /\ routes[2].method = MethodDELETE
    /\ routes[2].requestType # NilValue
    /\ "requestBody" \in DOMAIN OperationOf(1)
    /\ "requestBody" \notin DOMAIN OperationOf(2)

\* C28: on a DocRouter, the operation of a route on which WithSecurity was
\* called carries the bearerAuth security requirement, and the operation
\* of a route on which it was not called carries no security entry.
C28_SecuredRoutesCarrySecurity ==
    (Documented /\ impl = "DocRouter") =>
        \A i \in DOMAIN routes :
            Current(i) =>
                IF routes[i].secured
                THEN /\ "security" \in DOMAIN OperationOf(i)
                     /\ OperationOf(i)["security"]
                           = << ("bearerAuth" :> << >>) >>
                ELSE "security" \notin DOMAIN OperationOf(i)

-----------------------------------------------------------------------------
(* Properties of the responses and references (SpecResp) *)

\* the JSON content of a response
JSONContentOf(response) == response["content"]["application/json"]

\* the examples of the declared response are documented one by one: as many
\* entries as examples, and every example's value under some label
ExamplesDocumented(content, examples) ==
    IF examples = << >> THEN "examples" \notin DOMAIN content
    ELSE /\ "examples" \in DOMAIN content
         /\ Cardinality(DOMAIN content["examples"]) = Len(examples)
         /\ \A k \in DOMAIN examples :
               \E label \in DOMAIN content["examples"] :
                   content["examples"][label] = [value |-> examples[k].value]

\* C23: a declared response with a schema value is documented with its
\* description and a JSON content whose schema is what schemaRef returns
\* for the value, the reference to the registered type, and each of its
\* examples has an entry of its own; a declared response without a schema
\* value is documented as the description only.
C23_DeclaredResponsesDocumented ==
    Documented =>
        \A i \in DOMAIN routes :
            Current(i) =>
                \A status \in DOMAIN routes[i].responses :
                    LET declared == routes[i].responses[status]
                        response == OperationOf(i)["responses"][status]
                    IN IF declared.schema # NilValue
                       THEN /\ DOMAIN response = {"description", "content"}
                            /\ response["description"]
                                  = StrV(declared.description)
                            /\ ResponseSchema(response)
                                  = RefSchema(TypeName(declared.schema))
                            /\ TypeName(declared.schema) \in DOMAIN registry
                            /\ ExamplesDocumented(JSONContentOf(response),
                                                  declared.examples)
                       ELSE response
                               = ("description" :> StrV(declared.description))

\* every "$ref" in the schema tree
RECURSIVE AllRefs(_)
AllRefs(tree) ==
    IF tree = NilTree THEN {}
    ELSE IF "$ref" \in DOMAIN tree THEN { tree["$ref"].v }
    ELSE UNION {
        IF "properties" \in DOMAIN tree
        THEN UNION { AllRefs(Props(tree)[p].t) : p \in PropKeys(tree) }
        ELSE {},
        IF "items" \in DOMAIN tree THEN AllRefs(tree["items"].t) ELSE {},
        IF "additionalProperties" \in DOMAIN tree
        THEN AllRefs(tree["additionalProperties"].t)
        ELSE {} }

\* every "$ref" of a response or request body object: the object itself may
\* be a reference, and its JSON schema may hold references
RefsOf(object) ==
    (IF "$ref" \in DOMAIN object THEN {object["$ref"].v} ELSE {})
    \cup (IF "content" \in DOMAIN object
             /\ "schema" \in DOMAIN JSONContentOf(object)
          THEN AllRefs(Tree(heap, JSONContentOf(object)["schema"].a))
          ELSE {})

\* every "$ref" of the document: of the responses and request bodies of the
\* operations, and of the component schemas
DocumentRefs ==
    UNION { UNION { (UNION { RefsOf(doc.paths[path][method]["responses"][status]) :
                               status \in DOMAIN doc.paths[path][method]["responses"] })
                    \cup (IF "requestBody" \in DOMAIN doc.paths[path][method]
                          THEN RefsOf(doc.paths[path][method]["requestBody"])
                          ELSE {}) :
                    method \in DOMAIN doc.paths[path] } :
            path \in DOMAIN doc.paths }
    \cup UNION { AllRefs(Tree(heap, doc.components.schemas[name])) :
                   name \in DOMAIN doc.components.schemas }

\* C27: every "$ref" of a generated document is #/components/schemas/<Name>
\* with a non-empty Name that components.schemas holds, or
\* #/components/responses/<Name> with a Name that components.responses holds.
C27_ReferencesResolve ==
    Documented =>
        \A ref \in DocumentRefs :
            \/ /\ Head(ref) = "#/components/schemas/"
               /\ Tail(ref) # << >>
               /\ Tail(ref) \in DOMAIN doc.components.schemas
            \/ /\ Head(ref) = "#/components/responses/"
               /\ "responses" \in DOMAIN doc.components
               /\ Tail(ref) \in DOMAIN doc.components.responses

-----------------------------------------------------------------------------
(* Properties of the registry names (Spec) *)

\* the schema with every reference replaced by the registry entry it names,
\* and so on inside the entries, as deep as structs nest; a reference to a
\* name the registry does not hold stays
RECURSIVE Dereference(_, _, _, _)
Dereference(h, reg, tree, hops) ==
    IF tree = NilTree THEN tree
    ELSE IF "$ref" \in DOMAIN tree
    THEN IF hops = 0 \/ Tail(tree["$ref"].v) \notin DOMAIN reg THEN tree
         ELSE Dereference(h, reg, Entry(h, reg, Tail(tree["$ref"].v)),
                          hops - 1)
    ELSE [key \in DOMAIN tree |->
            IF key = "properties"
            THEN [k |-> "map",
                  t |-> [p \in PropKeys(tree) |->
                           [k |-> "map",
                            t |-> Dereference(h, reg, Props(tree)[p].t,
                                              hops)]]]
            ELSE IF key \in {"items", "additionalProperties"}
            THEN [k |-> "map", t |-> Dereference(h, reg, tree[key].t, hops)]
            ELSE tree[key]]

\* the named struct values handed to schemaRef by this step and the step
\* before it
RefValues ==
    { t \in {call'.arg} \cup (IF call.op = "schemaRef" THEN {call.arg} ELSE {}) :
        getTypeName(t) # << >> /\ Unptr(t).kind = "struct" }

\* C30: a registry name stands for one type or nesting position: after one
\* or two schemaRef calls on an empty registry, the reference to each named
\* struct type that was handed in, with every reference followed into the
\* registry, is the schema generated from that type.
C30_NamesIdentifyOneSource ==
    [][(/\ call'.op = "schemaRef"
        /\ call.op \in {"none", "schemaRef"}
        /\ ncalls <= 1)
       => \A t \in RefValues :
             Dereference(heap', registry', RefSchema(getTypeName(t)), Budget)
                 = GenTree(t)]_vars

-----------------------------------------------------------------------------
(* Properties of repeated generation (SpecDet) *)

\* a response or request body object with its JSON schema read from the
\* heap h
WithSchema(h, object) ==
    IF "content" \in DOMAIN object /\ "schema" \in DOMAIN JSONContentOf(object)
    THEN [object EXCEPT !["content"]["application/json"]["schema"] =
             [k |-> "map", t |-> Tree(h, @.a)]]
    ELSE object

\* the paths of a document with every schema read from the heap h
PathsOf(h, paths) ==
    [path \in DOMAIN paths |->
        [method \in DOMAIN paths[path] |->
            [key \in DOMAIN paths[path][method] |->
                IF key = "responses"
                THEN [status \in DOMAIN paths[path][method][key] |->
                         WithSchema(h, paths[path][method][key][status])]
                ELSE IF key = "requestBody"
                THEN WithSchema(h, paths[path][method][key])
                ELSE paths[path][method][key]]]]

\* what a run of the generator leaves: the paths and the registry
Outcome(h, reg, paths) ==
    [paths |-> PathsOf(h, paths), schemas |-> SchemasOf(h, reg)]

\* the outcome of generating the document from the present state when the
\* range statements visit the property maps in the order ord
OutcomeUnder(ord) ==
    (LET withR(r) ==
         IF Ran(r) THEN
             Outcome(r.m.heap, r.m.reg, r.ret.paths)
         ELSE r
     IN withR(IF impl = "OpenAPIGenerator"
              THEN generateDocument(generatePaths(Cur, routes, 1, << >>, ord))
              ELSE OpenAPI(generatePathsDocRouter(Cur, routes, 1, << >>, ord))))

\* C21: generation is deterministic: the first document generated from the
\* routes has the same paths, the same registry names and the same schema
\* under each name in whatever order the property maps are ranged over.
C21_GenerationIsDeterministic ==
    [][(call'.op = "document" /\ ncalls = 0)
       => \A ord \in RangeOrders :
             OutcomeUnder(ord) = Outcome(heap', registry', doc'.paths)]_vars
====
